---- MODULE Spec2Model ----
(***************************************************************************)
(* A model of the Harvard DecaDAC driver                                   *)
(* (src/src/qcodes/instrument_drivers/Harvard/Decadac.py).                 *)
(*                                                                         *)
(* The driver is synchronous: every ask_raw is one request/response pair   *)
(* on the shared transport.  The model runs the driver as a stack of       *)
(* frames (one per active Python call); the top frame is the pending       *)
(* ask_raw.  One step of the model is one transaction: the device receives *)
(* the command, answers, and the driver runs up to its next ask_raw.       *)
(*                                                                         *)
(* Text on the wire is a sequence of one-character strings.  Python ints   *)
(* that can exceed 31 bits (register values, 64-bit reads, a value to      *)
(* write) are "wide" integers: a sign and base-65536 limbs.  Python floats *)
(* (voltages, rates) are exact rationals in lowest terms.                  *)
(***************************************************************************)
EXTENDS Integers, Sequences, FiniteSets, TLC

(***************************************************************************)
(* Characters and decimal text                                             *)
(***************************************************************************)
Digits == <<"0", "1", "2", "3", "4", "5", "6", "7", "8", "9">>

DigitSet == {Digits[i] : i \in 1..10}

Whitespace == {" ", "\n", "\r", "\t"}

DigitVal(c) == CHOOSE v \in 0..9 : Digits[v + 1] = c

RECURSIVE DecNat(_)
DecNat(n) == IF n < 10 THEN <<Digits[n + 1]>>
             ELSE DecNat(n \div 10) \o <<Digits[(n % 10) + 1]>>

\* str(n) of a Python int that fits the model's integers
Dec(n) == IF n < 0 THEN <<"-">> \o DecNat(0 - n) ELSE DecNat(n)

RECURSIVE LStrip(_)
LStrip(s) == IF s # <<>> /\ Head(s) \in Whitespace THEN LStrip(Tail(s)) ELSE s

RECURSIVE RStrip(_)
RStrip(s) == IF s # <<>> /\ s[Len(s)] \in Whitespace
             THEN RStrip(SubSeq(s, 1, Len(s) - 1)) ELSE s

\* str.strip()
Strip(s) == RStrip(LStrip(s))

(***************************************************************************)
(* Wide integers: [neg, mag], mag the base-65536 limbs, least significant  *)
(* first, without leading zero limbs (zero is the empty sequence).         *)
(***************************************************************************)
Limb == 2^16

RECURSIVE MagOf(_)
MagOf(n) == IF n = 0 THEN <<>> ELSE <<n % Limb>> \o MagOf(n \div Limb)

WOf(n) == IF n < 0 THEN [neg |-> TRUE, mag |-> MagOf(0 - n)]
          ELSE [neg |-> FALSE, mag |-> MagOf(n)]

RECURSIVE MagNorm(_)
MagNorm(a) == IF a # <<>> /\ a[Len(a)] = 0
              THEN MagNorm(SubSeq(a, 1, Len(a) - 1)) ELSE a

RECURSIVE MagAdd(_, _, _)
MagAdd(a, b, carry) ==
    IF a = <<>> /\ b = <<>>
    THEN (IF carry = 0 THEN <<>> ELSE <<carry>>)
    ELSE LET x == IF a = <<>> THEN 0 ELSE Head(a)
             y == IF b = <<>> THEN 0 ELSE Head(b)
             s == x + y + carry
         IN <<s % Limb>> \o MagAdd(IF a = <<>> THEN a ELSE Tail(a),
                                   IF b = <<>> THEN b ELSE Tail(b),
                                   s \div Limb)

\* a * k + carry for a small k (k * 65535 + carry fits the model's integers)
RECURSIVE MagMulSmall(_, _, _)
MagMulSmall(a, k, carry) ==
    IF a = <<>>
    THEN MagOf(carry)
    ELSE LET s == Head(a) * k + carry
         IN <<s % Limb>> \o MagMulSmall(Tail(a), k, s \div Limb)

\* a << (32 * words)
MagShl32(a, words) ==
    IF a = <<>> THEN <<>> ELSE [i \in 1..(2 * words) |-> 0] \o a

\* a < b for normalised magnitudes
RECURSIVE MagLess(_, _)
MagLess(a, b) ==
    IF Len(a) # Len(b) THEN Len(a) < Len(b)
    ELSE IF a = <<>> THEN FALSE
    ELSE IF a[Len(a)] # b[Len(b)] THEN a[Len(a)] < b[Len(b)]
    ELSE MagLess(SubSeq(a, 1, Len(a) - 1), SubSeq(b, 1, Len(b) - 1))

\* quotient and remainder of a magnitude by k < 2^23, most significant limb first,
\* a limb in two halves
RECURSIVE MagDivSmall(_, _, _)
MagDivSmall(a, k, rem) ==
    IF a = <<>>
    THEN [q |-> <<>>, r |-> rem]
    ELSE LET hi   == rem * 256 + (a[Len(a)] \div 256)
             lo   == (hi % k) * 256 + (a[Len(a)] % 256)
             rest == MagDivSmall(SubSeq(a, 1, Len(a) - 1), k, lo % k)
         IN [q |-> rest.q \o <<(hi \div k) * 256 + (lo \div k)>>, r |-> rest.r]

RECURSIVE DecMag(_)
DecMag(a) ==
    LET d == MagDivSmall(a, 10, 0)
        q == MagNorm(d.q)
    IN IF q = <<>> THEN <<Digits[d.r + 1]>>
       ELSE DecMag(q) \o <<Digits[d.r + 1]>>

\* str(w) of a wide integer
DecW(w) == IF w.neg THEN <<"-">> \o DecMag(w.mag) ELSE DecMag(w.mag)

WZero == WOf(0)

WIsNeg(w) == w.neg

\* w < 2**32 for w >= 0
WBelow2p32(w) == Len(w.mag) <= 2

\* the model integer of a wide integer below 2**31
WToInt(w) ==
    LET m == w.mag
        v == IF m = <<>> THEN 0
             ELSE IF Len(m) = 1 THEN m[1] ELSE m[1] + Limb * m[2]
    IN IF w.neg THEN 0 - v ELSE v

WFits(w) == Len(w.mag) <= 1 \/ (Len(w.mag) = 2 /\ w.mag[2] < 32768)

(***************************************************************************)
(* int(text): Python accepts surrounding whitespace and decimal digits     *)
(* (the device alphabet of the model has no sign and no underscore).       *)
(* [ok, val]: not ok is Python's ValueError.                               *)
(***************************************************************************)
RECURSIVE MagOfDigits(_, _)
MagOfDigits(s, acc) ==
    IF s = <<>> THEN acc
    ELSE MagOfDigits(Tail(s), MagMulSmall(acc, 10, DigitVal(Head(s))))

ParseInt(text) ==
    LET s == Strip(text)
    IN IF s = <<>> \/ \E i \in 1..Len(s) : s[i] \notin DigitSet
       THEN [ok |-> FALSE, val |-> WZero]
       ELSE [ok |-> TRUE, val |-> [neg |-> FALSE, mag |-> MagNorm(MagOfDigits(s, <<>>))]]

(***************************************************************************)
(* Rationals [n, d] in lowest terms with d > 0: the model of a float.      *)
(***************************************************************************)
Abs(x) == IF x < 0 THEN 0 - x ELSE x

RECURSIVE Gcd(_, _)
Gcd(a, b) == IF b = 0 THEN a ELSE Gcd(b, a % b)

Rat(n, d) ==
    LET g == Gcd(Abs(n), Abs(d))
        s == IF d < 0 THEN 0 - 1 ELSE 1
    IN [n |-> s * (n \div g), d |-> s * (d \div g)]

RatOf(i) == [n |-> i, d |-> 1]

\* the product, cancelling across before multiplying
RatMul(a, b) ==
    LET g1 == Gcd(Abs(a.n), b.d)
        g2 == Gcd(Abs(b.n), a.d)
    IN IF a.n = 0 \/ b.n = 0 THEN RatOf(0)
       ELSE [n |-> (a.n \div g1) * (b.n \div g2), d |-> (a.d \div g2) * (b.d \div g1)]

\* 1 / a, for a # 0
RatInv(a) == IF a.n < 0 THEN [n |-> 0 - a.d, d |-> 0 - a.n] ELSE [n |-> a.d, d |-> a.n]

RatDiv(a, b) == RatMul(a, RatInv(b))

RatAdd(a, b) ==
    LET g == Gcd(a.d, b.d)
    IN Rat(a.n * (b.d \div g) + b.n * (a.d \div g), (a.d \div g) * b.d)

RatNeg(a) == [n |-> 0 - a.n, d |-> a.d]

RatSub(a, b) == RatAdd(a, RatNeg(b))

RatAbs(a) == [n |-> Abs(a.n), d |-> a.d]

RatLess(a, b) ==
    LET g == Gcd(a.d, b.d)
    IN a.n * (b.d \div g) < b.n * (a.d \div g)

\* floor(a)
RatFloor(a) == a.n \div a.d

\* round() of f + r/d, 0 <= r < d: to the nearest integer, a tie to the even one
RoundRem(f, r, d) ==
    IF 2 * r < d THEN f
    ELSE IF 2 * r > d THEN f + 1
    ELSE IF f % 2 = 0 THEN f ELSE f + 1

\* round() of a, f its floor
RoundFrom(a, f) == RoundRem(f, a.n - f * a.d, a.d)

\* Python's round(): to the nearest integer, a tie to the even one
RoundHalfEven(a) == RoundFrom(a, RatFloor(a))

\* Python's int() of a float: truncation toward zero
Trunc(a) == IF a.n >= 0 THEN a.n \div a.d ELSE 0 - ((0 - a.n) \div a.d)

(***************************************************************************)
(* A call that may raise returns [exc, val]; exc = NoExc is a normal       *)
(* return.                                                                 *)
(***************************************************************************)
NoExc == "none"

DacExc == "HarvardDecadacException"

Ok(v) == [exc |-> NoExc, val |-> v]

Err(e) == [exc |-> e, val |-> <<>>]

(***************************************************************************)
(* DacReader: the response parser and the voltage codec                    *)
(***************************************************************************)
\* DacReader._dac_parse
DacParse(resp) ==
    LET r == Strip(resp)
    IN IF r = <<>> THEN Err("IndexError")
       ELSE IF r[Len(r)] # "!" THEN Err(DacExc)
       ELSE Ok(SubSeq(r, 2, Len(r) - 1))

CodeMax == 65535

\* DacReader._dac_v_to_code: the check of the code
CodeChecked(val) == IF val > CodeMax \/ val < 0 THEN Err("ValueError") ELSE Ok(val)

\* DacReader._dac_v_to_code: val = int(round(frac * 65535))
CodeOfFrac(frac) == CodeChecked(RoundHalfEven(RatMul(frac, RatOf(CodeMax))))

\* a conversion that takes a voltage outside the range for the nearest end of it
DacVToCodeClamped(volt, min_val, max_val) ==
    IF RatLess(volt, min_val) THEN Ok(0)
    ELSE IF RatLess(max_val, volt) THEN Ok(CodeMax)
    ELSE CodeOfFrac(RatDiv(RatSub(volt, min_val), RatSub(max_val, min_val)))

\* DacReader._dac_v_to_code
DacVToCode(volt, min_val, max_val) ==
    IF RatLess(volt, min_val) \/ RatLess(max_val, volt)
    THEN Err("ValueError")
    ELSE CodeOfFrac(RatDiv(RatSub(volt, min_val), RatSub(max_val, min_val)))

\* the conversion of a code without the offset of the range
DacCodeToVNoOffset(code, min_val, max_val) ==
    RatMul(Rat(code, CodeMax), RatSub(max_val, min_val))

\* DacReader._dac_code_to_v
DacCodeToV(code, min_val, max_val) ==
    RatAdd(RatMul(Rat(code, CodeMax), RatSub(max_val, min_val)), min_val)

(***************************************************************************)
(* The instrument: 5 slots of 4 channels.  An object of the driver is      *)
(* [kind, slot, chan]: a channel, a slot (chan = -1) or the instrument.    *)
(***************************************************************************)
NumSlots == 5

ChansPerSlot == 4

NumChans == NumSlots * ChansPerSlot

ChanObj(ch) == [kind |-> "chan", slot |-> ch \div ChansPerSlot, chan |-> ch % ChansPerSlot]

SlotObj(sl) == [kind |-> "slot", slot |-> sl, chan |-> 0 - 1]

InstObj == [kind |-> "inst", slot |-> 0 - 1, chan |-> 0 - 1]

\* HarvardDecadac._feature_detect: self._slot = 0 ("pretend to be slot 0")
InstAsSlot0 == [kind |-> "inst", slot |-> 0, chan |-> 0 - 1]

ChanIndex(self) == self.slot * ChansPerSlot + self.chan

\* HarvardDecadacChannel.__init__: self._base_addr
BaseAddr(self) == 1536 + (16 * 4) * self.slot + 16 * self.chan

MaxAddr == 1107296266

EepromIdAddr == 1107296256

EepromMagic == 21930

VersionAddr == 1107296266

SerialAddr == 1107296264

VersaProbeAddr == 6

(***************************************************************************)
(* Commands: f"{letter}{arg};"                                             *)
(***************************************************************************)
Cmd(letter, arg) == <<letter>> \o arg \o <<";">>

\* f"B{self._slot};"
SlotSelect(self) == Cmd("B", Dec(self.slot))

\* f"B{self._slot};C{self._channel};"
ChannelSelect(self) == Cmd("B", Dec(self.slot)) \o Cmd("C", Dec(self.chan))

\* f"B{self._slot}!C{self._channel}!"
ChannelSelectEcho(self) ==
    <<"B">> \o Dec(self.slot) \o <<"!">> \o <<"C">> \o Dec(self.chan) \o <<"!">>

\* the direct set without its limits
DirectSetBare(code) == Cmd("D", Dec(code))

\* f"U65535;L0;D{code};"
DirectSet(code) == Cmd("U", Dec(65535)) \o Cmd("L", Dec(0)) \o Cmd("D", Dec(code))

(***************************************************************************)
(* Frames.  A frame is a record with k (the function), pc (where it        *)
(* resumes) and its arguments and locals.  A step of a frame takes the     *)
(* result r = [exc, val] of the call it was waiting for and answers with   *)
(* the next call it makes (CallA) or with its own result (DoneA).          *)
(***************************************************************************)
CallA(f, g, inst) == [t |-> "call", f |-> f, callee |-> g, inst |-> inst]

DoneA(r, inst) == [t |-> "done", r |-> r, inst |-> inst]

None == <<>>

AskRaw(self, cmd) == [k |-> "ask_raw", pc |-> "wait", self |-> self, cmd |-> cmd]

SetSlotF(self) == [k |-> "_set_slot", pc |-> "start", self |-> self]

SetChannelF(self) == [k |-> "_set_channel", pc |-> "start", self |-> self]

QueryAddressF(self, addr, count, versa) ==
    [k |-> "_query_address", pc |-> "start", self |-> self, addr |-> addr,
     count |-> count, versa |-> versa, i |-> 0, val |-> WZero]

WriteAddressF(self, addr, val, versa) ==
    [k |-> "_write_address", pc |-> "start", self |-> self, addr |-> addr,
     val |-> val, versa |-> versa]

WriteF(self, cmd) == [k |-> "write", pc |-> "start", self |-> self, cmd |-> cmd]

ParamSetF(self, name, value) ==
    [k |-> "param_set", pc |-> "start", self |-> self, name |-> name, value |-> value]

ParamGetF(self, name) == [k |-> "param_get", pc |-> "start", self |-> self, name |-> name]

SetDacF(self, code) == [k |-> "_set_dac", pc |-> "start", self |-> self, code |-> code]

RampF(self, val, rate, block) ==
    [k |-> "_ramp", pc |-> "start", self |-> self, val |-> val, rate |-> rate,
     block |-> block, c_volt |-> RatOf(0), c_val |-> 0, e_val |-> 0, slope |-> 0]

SetAllF(volt) == [k |-> "set_all", pc |-> "start", self |-> InstObj, volt |-> volt, i |-> 0]

RampAllF(volt, rate) ==
    [k |-> "ramp_all", pc |-> "start", self |-> InstObj, volt |-> volt, rate |-> rate, i |-> 0]

RampFunctionF(self, val, rate) ==
    [k |-> "ramp", pc |-> "start", self |-> self, val |-> val, rate |-> rate]

FeatureDetectF == [k |-> "_feature_detect", pc |-> "start", self |-> InstObj]

GetIdnF == [k |-> "get_idn", pc |-> "start", self |-> InstObj]

InitF == [k |-> "__init__", pc |-> "start", self |-> InstObj, i |-> 0]

\* DacReader._set_slot
SetSlot(f, r, inst) ==
    IF f.pc = "start"
    THEN CallA([f EXCEPT !.pc = "resp"], AskRaw(f.self, SlotSelect(f.self)), inst)
    ELSE LET p == DacParse(r.val)
             n == ParseInt(p.val)
         IN IF p.exc # NoExc THEN DoneA(Err(p.exc), inst)
            ELSE IF ~n.ok THEN DoneA(Err("ValueError"), inst)
            ELSE IF n.val # WOf(f.self.slot) THEN DoneA(Err(DacExc), inst)
            ELSE DoneA(Ok(None), inst)

\* _set_channel without the check of the echo
SetChannelUnchecked(f, r, inst) ==
    IF f.pc = "start"
    THEN CallA([f EXCEPT !.pc = "resp"], AskRaw(f.self, ChannelSelect(f.self)), inst)
    ELSE DoneA(Ok(None), inst)

\* DacReader._set_channel
SetChannel(f, r, inst) ==
    IF f.pc = "start"
    THEN CallA([f EXCEPT !.pc = "resp"], AskRaw(f.self, ChannelSelect(f.self)), inst)
    ELSE IF Strip(r.val) # ChannelSelectEcho(f.self)
         THEN DoneA(Err(DacExc), inst)
         ELSE DoneA(Ok(None), inst)

QueryCommand(versa) == IF versa THEN <<"e", ";">> ELSE <<"p", ";">>

\* the write letter of the main memory for every write
WriteLetterMain(versa) == "P"

\* write_command = "E" if versa_eeprom else "P"
WriteLetter(versa) == IF versa THEN "E" ELSE "P"

\* an address range that ends one later
AddrValidLate(addr) == 0 <= addr /\ addr <= MaxAddr + 1

\* 0 <= address <= 1107296266
AddrValid(addr) == 0 <= addr /\ addr <= MaxAddr

\* the words of a read, the least significant first
WordShiftLsw(count, i) == i

\* val += int(...) << (32 * (count - i - 1)): the place of word i, in words
WordShift(count, i) == count - i - 1

\* the loop head of DacReader._query_address: for i in range(count)
QueryLoop(f, inst) ==
    IF f.i >= f.count
    THEN DoneA(Ok(f.val), inst)
    ELSE CallA([f EXCEPT !.pc = "addr"], AskRaw(f.self, Cmd("A", Dec(f.addr))), inst)

\* DacReader._query_address
QueryAddress(f, r, inst) ==
    CASE f.pc = "start" ->
           IF f.count = 0 THEN DoneA(Ok(WZero), inst)
           ELSE IF ~AddrValid(f.addr) THEN DoneA(Err(DacExc), inst)
           ELSE IF f.versa THEN CallA([f EXCEPT !.pc = "slot"], SetSlotF(f.self), inst)
           ELSE QueryLoop(f, inst)
      [] f.pc = "slot" -> QueryLoop(f, inst)
      [] f.pc = "addr" ->
           LET p == DacParse(r.val)
               n == ParseInt(p.val)
           IN IF p.exc # NoExc THEN DoneA(Err(p.exc), inst)
              ELSE IF ~n.ok THEN DoneA(Err("ValueError"), inst)
              ELSE IF n.val # WOf(f.addr) THEN DoneA(Err(DacExc), inst)
              ELSE CallA([f EXCEPT !.pc = "word"], AskRaw(f.self, QueryCommand(f.versa)), inst)
      [] f.pc = "word" ->
           LET p == DacParse(r.val)
               n == ParseInt(p.val)
           IN IF p.exc # NoExc THEN DoneA(Err(p.exc), inst)
              ELSE IF ~n.ok THEN DoneA(Err("ValueError"), inst)
              ELSE QueryLoop([f EXCEPT
                       !.val = [neg |-> FALSE,
                                mag |-> MagAdd(f.val.mag,
                                               MagShl32(n.val.mag, WordShift(f.count, f.i)), 0)],
                       !.addr = f.addr + 1,
                       !.i = f.i + 1], inst)

\* DacReader._write_address
WriteAddress(f, r, inst) ==
    CASE f.pc = "start" ->
           IF ~AddrValid(f.addr) THEN DoneA(Err(DacExc), inst)
           ELSE IF WIsNeg(f.val) \/ ~WBelow2p32(f.val) THEN DoneA(Err(DacExc), inst)
           ELSE IF f.versa THEN CallA([f EXCEPT !.pc = "slot"], SetSlotF(f.self), inst)
           ELSE CallA([f EXCEPT !.pc = "addr"], AskRaw(f.self, Cmd("A", Dec(f.addr))), inst)
      [] f.pc = "slot" ->
           CallA([f EXCEPT !.pc = "addr"], AskRaw(f.self, Cmd("A", Dec(f.addr))), inst)
      [] f.pc = "addr" ->
           LET p == DacParse(r.val)
               n == ParseInt(p.val)
           IN IF p.exc # NoExc THEN DoneA(Err(p.exc), inst)
              ELSE IF ~n.ok THEN DoneA(Err("ValueError"), inst)
              ELSE IF n.val # WOf(f.addr) THEN DoneA(Err(DacExc), inst)
              ELSE CallA([f EXCEPT !.pc = "write"],
                         AskRaw(f.self, Cmd(WriteLetter(f.versa), DecW(f.val))), inst)
      [] f.pc = "write" ->
           CallA([f EXCEPT !.pc = "readback"], AskRaw(f.self, QueryCommand(f.versa)), inst)
      [] f.pc = "readback" ->
           LET p == DacParse(r.val)
               n == ParseInt(p.val)
           IN IF p.exc # NoExc THEN DoneA(Err(p.exc), inst)
              ELSE IF ~n.ok THEN DoneA(Err("ValueError"), inst)
              ELSE IF n.val # f.val THEN DoneA(Err(DacExc), inst)
              ELSE DoneA(Ok(None), inst)

\* HarvardDecadacChannel.write / ask, HarvardDecadacSlot.write / ask,
\* HarvardDecadac.write (the instrument's ask goes straight to ask_raw)
Write(f, r, inst) ==
    CASE f.pc = "start" ->
           IF f.self.kind = "chan"
           THEN CallA([f EXCEPT !.pc = "sel"], SetChannelF(f.self), inst)
           ELSE IF f.self.kind = "slot"
           THEN CallA([f EXCEPT !.pc = "sel"], SetSlotF(f.self), inst)
           ELSE CallA([f EXCEPT !.pc = "cmd"], AskRaw(f.self, f.cmd), inst)
      [] f.pc = "sel" -> CallA([f EXCEPT !.pc = "cmd"], AskRaw(f.self, f.cmd), inst)
      [] f.pc = "cmd" -> DoneA(Ok(r.val), inst)

(***************************************************************************)
(* Parameters.  A parameter's set validates the value (vals), converts it  *)
(* (set_parser) and runs set_cmd: a command string goes through the        *)
(* owner's write.  A get runs get_cmd and converts the answer (get_parser).*)
(***************************************************************************)
VoltParams == {"volt", "lower_ramp_limit", "upper_ramp_limit"}

\* vals.Numbers(lo, hi)
InNumbers(v, lo, hi) == ~RatLess(v, lo) /\ ~RatLess(hi, v)

PeriodMin == 50

\* self._ramp_val = vals.Numbers(0, 10)
RampRateMin == 0

RampRateMax == 10

PeriodMax == 65535

\* vals.Ints(-(2**32), 2**32), for a slope that fits the model's integers
SlopeValid(v) == ~MagLess(<<0, 0, 1>>, MagOf(Abs(v)))

\* HarvardDecadacSlot.__init__: slot_modes
SlotModes(finecald) ==
    IF finecald THEN {"Off", "Fine", "Coarse", "FineCald"} ELSE {"Off", "Fine", "Coarse"}

SlotModeCode(mode) ==
    CASE mode = "Off" -> 0 [] mode = "Fine" -> 1 [] mode = "Coarse" -> 2 [] mode = "FineCald" -> 3

\* get_cmd of a channel parameter: the register offset and the word count
ParamAddr(self, name) ==
    CASE name = "volt" -> BaseAddr(self) + 9
      [] name = "lower_ramp_limit" -> BaseAddr(self) + 5
      [] name = "upper_ramp_limit" -> BaseAddr(self) + 4
      [] name = "update_period" -> BaseAddr(self)
      [] name = "slope" -> BaseAddr(self) + 6

\* a read of two words whatever the parameter
ParamWordsTwo(name) == 2

ParamWords(name) == IF name = "slope" THEN 2 ELSE 1

\* set_cmd of a channel parameter: "L{};", "U{};", "T{};", "S{};"
ParamLetter(name) ==
    CASE name = "lower_ramp_limit" -> "L"
      [] name = "upper_ramp_limit" -> "U"
      [] name = "update_period" -> "T"
      [] name = "slope" -> "S"

\* Parameter.set of volt, lower_ramp_limit, upper_ramp_limit, update_period, slope,
\* slot_mode and of the manual parameters enable_ramp and ramp_rate
ParamSet(f, r, inst) ==
    CASE f.pc = "start" /\ f.name \in VoltParams ->
           LET c == DacVToCode(f.value, inst.min_val, inst.max_val)
           IN IF ~InNumbers(f.value, inst.min_val, inst.max_val)
              THEN DoneA(Err("ValueError"), inst)
              ELSE IF c.exc # NoExc THEN DoneA(Err(c.exc), inst)
              ELSE IF f.name = "volt"
              THEN CallA([f EXCEPT !.pc = "cmd"], SetDacF(f.self, c.val), inst)
              ELSE CallA([f EXCEPT !.pc = "cmd"],
                         WriteF(f.self, Cmd(ParamLetter(f.name), Dec(c.val))), inst)
      [] f.pc = "start" /\ f.name = "update_period" ->
           IF f.value < PeriodMin \/ f.value > PeriodMax
           THEN DoneA(Err("ValueError"), inst)
           ELSE CallA([f EXCEPT !.pc = "cmd"], WriteF(f.self, Cmd("T", Dec(f.value))), inst)
      [] f.pc = "start" /\ f.name = "slope" ->
           IF ~SlopeValid(f.value)
           THEN DoneA(Err("ValueError"), inst)
           ELSE CallA([f EXCEPT !.pc = "cmd"], WriteF(f.self, Cmd("S", Dec(f.value))), inst)
      [] f.pc = "start" /\ f.name = "slot_mode" ->
           IF f.value \notin SlotModes(inst.finecald[f.self.slot])
           THEN DoneA(Err("ValueError"), inst)
           ELSE CallA([f EXCEPT !.pc = "cmd"],
                      WriteF(f.self, Cmd("M", Dec(SlotModeCode(f.value)))), inst)
      [] f.pc = "start" /\ f.name = "enable_ramp" ->
           IF f.value \notin BOOLEAN
           THEN DoneA(Err("ValueError"), inst)
           ELSE DoneA(Ok(None), [inst EXCEPT !.enable_ramp[ChanIndex(f.self)] = f.value])
      [] f.pc = "start" /\ f.name = "ramp_rate" ->
           IF ~InNumbers(f.value, RatOf(RampRateMin), RatOf(RampRateMax))
           THEN DoneA(Err("ValueError"), inst)
           ELSE DoneA(Ok(None), [inst EXCEPT !.ramp_rate[ChanIndex(f.self)] = f.value])
      [] f.pc = "cmd" -> DoneA(Ok(None), inst)

\* Parameter.get of the parameters with a get_cmd
ParamGet(f, r, inst) ==
    CASE f.pc = "start" /\ f.name = "slot_mode" ->
           CallA([f EXCEPT !.pc = "cmd"], WriteF(f.self, <<"m", ";">>), inst)
      [] f.pc = "start" /\ f.name # "slot_mode" ->
           CallA([f EXCEPT !.pc = "cmd"],
                 QueryAddressF(f.self, ParamAddr(f.self, f.name), ParamWords(f.name), FALSE),
                 inst)
      [] f.pc = "cmd" /\ f.name \in VoltParams ->
           DoneA(Ok(DacCodeToV(WToInt(r.val), inst.min_val, inst.max_val)), inst)
      [] f.pc = "cmd" /\ f.name = "slot_mode" -> DoneA(DacParse(r.val), inst)
      [] f.pc = "cmd" /\ f.name \in {"update_period", "slope"} -> DoneA(Ok(r.val), inst)

\* _set_dac sending the select and the command as one transaction
SetDacOneTransaction(f, r, inst) ==
    CASE f.pc = "start" ->
           CallA([f EXCEPT !.pc = "done"],
                 AskRaw(f.self, ChannelSelect(f.self) \o DirectSet(f.code)), inst)
      [] f.pc = "done" -> DoneA(Ok(None), inst)

\* HarvardDecadacChannel._set_dac
SetDac(f, r, inst) ==
    CASE f.pc = "start" ->
           IF inst.enable_ramp[ChanIndex(f.self)]
           THEN CallA([f EXCEPT !.pc = "done"],
                      RampF(f.self, DacCodeToV(f.code, inst.min_val, inst.max_val),
                            inst.ramp_rate[ChanIndex(f.self)], TRUE), inst)
           ELSE CallA([f EXCEPT !.pc = "sel"], SetChannelF(f.self), inst)
      [] f.pc = "sel" ->
           CallA([f EXCEPT !.pc = "done"], AskRaw(f.self, DirectSet(f.code)), inst)
      [] f.pc = "done" -> DoneA(Ok(None), inst)

\* a * 2^14
MagShl14(a) == MagMulSmall(a, 16384, 0)

\* a * k for a magnitude a and a model integer k >= 0, 14 bits of k at a time
RECURSIVE MagMul(_, _)
MagMul(a, k) ==
    IF k = 0 THEN <<>>
    ELSE MagNorm(MagAdd(MagMulSmall(a, k % 16384, 0), MagShl14(MagMul(a, k \div 16384)), 0))

\* the divisor d cancelled against the factors ns: what is left of d and of ns
RECURSIVE CancelIn(_, _)
CancelIn(d, ns) ==
    IF ns = <<>> THEN [d |-> d, ns |-> <<>>]
    ELSE LET g    == Gcd(Head(ns), d)
             rest == CancelIn(d \div g, Tail(ns))
         IN [d |-> rest.d, ns |-> <<Head(ns) \div g>> \o rest.ns]

\* the divisors ds cancelled against the factors ns
RECURSIVE CancelAll(_, _)
CancelAll(ds, ns) ==
    IF ds = <<>> THEN [ds |-> <<>>, ns |-> ns]
    ELSE LET c    == CancelIn(Head(ds), ns)
             rest == CancelAll(Tail(ds), c.ns)
         IN [ds |-> <<c.d>> \o rest.ds, ns |-> rest.ns]

\* the product of the factors ns, as a magnitude
RECURSIVE MagProduct(_)
MagProduct(ns) == IF ns = <<>> THEN MagOf(1) ELSE MagMul(MagProduct(Tail(ns)), Head(ns))

\* floor(a / (ds[1] * ... * ds[n])) for small divisors
RECURSIVE MagQuot(_, _)
MagQuot(a, ds) ==
    IF ds = <<>> THEN a
    ELSE MagQuot(MagNorm(MagDivSmall(a, Head(ds), 0).q), Tail(ds))

\* the quotient rounded down for a falling ramp
SignedQuotFloor(neg, c) ==
    IF neg THEN 0 - WToInt([neg |-> FALSE, mag |-> MagQuot(MagProduct(c.ns), c.ds)]) - 1
    ELSE WToInt([neg |-> FALSE, mag |-> MagQuot(MagProduct(c.ns), c.ds)])

\* the product of the factors c.ns over the product of the divisors c.ds, truncated,
\* with its sign
SignedQuot(neg, c) ==
    IF neg THEN 0 - WToInt([neg |-> FALSE, mag |-> MagQuot(MagProduct(c.ns), c.ds)])
    ELSE WToInt([neg |-> FALSE, mag |-> MagQuot(MagProduct(c.ns), c.ds)])

\* the slope of HarvardDecadacChannel._ramp, for period > 0, rate # 0, c_volt # val:
\*   t_rate = 1 / (period * 1e-6); secs = abs((c_volt - val) / rate)
\*   slope = int(((e_val - c_val) / (t_rate * secs)) * 65536)
\* computed exactly: (e_val - c_val) * 65536 * period * |rate| / (10^6 * |c_volt - val|),
\* truncated toward zero
RampSlope(c_volt, val, c_val, e_val, period, rate) ==
    SignedQuot(e_val < c_val,
               CancelAll(<<1000, 1000, RatAbs(RatSub(c_volt, val)).n, rate.d>>,
                         <<Abs(e_val - c_val), 256, 256, period,
                           RatAbs(RatSub(c_volt, val)).d, Abs(rate.n)>>))

\* a ramp that sets the upper limit whatever the slope
RampLimitUpper(f, slope, inst) ==
    CallA([f EXCEPT !.pc = "limit", !.slope = slope],
          ParamSetF(f.self, "upper_ramp_limit", f.val), inst)

\* HarvardDecadacChannel._ramp: the limit that is set for the slope
RampLimit(f, slope, inst) ==
    IF slope > 0
    THEN CallA([f EXCEPT !.pc = "limit", !.slope = slope],
               ParamSetF(f.self, "upper_ramp_limit", f.val), inst)
    ELSE CallA([f EXCEPT !.pc = "limit", !.slope = slope],
               ParamSetF(f.self, "lower_ramp_limit", f.val), inst)

\* a poll that takes any word for the end of the ramp
SlopeDoneAny(v) == TRUE

\* a poll that no word ends
SlopeDoneNever(v) == FALSE

\* while self.slope.get() != 0: the read that ends the loop
SlopeDone(v) == v = WZero

\* a ramp that takes no voltage for its target
AtTargetNever(c_volt, val) == FALSE

\* if c_volt == val: the ramp has nothing to do
AtTarget(c_volt, val) == c_volt = val

\* HarvardDecadacChannel._ramp
Ramp(f, r, inst) ==
    CASE f.pc = "start" -> CallA([f EXCEPT !.pc = "volt"], ParamGetF(f.self, "volt"), inst)
      [] f.pc = "volt" ->
           LET c_volt == r.val
               c == DacVToCode(c_volt, inst.min_val, inst.max_val)
               e == DacVToCode(f.val, inst.min_val, inst.max_val)
           IN IF AtTarget(c_volt, f.val) THEN DoneA(Ok(None), inst)
              ELSE IF c.exc # NoExc THEN DoneA(Err(c.exc), inst)
              ELSE IF e.exc # NoExc THEN DoneA(Err(e.exc), inst)
              ELSE CallA([f EXCEPT !.pc = "period", !.c_volt = c_volt,
                                   !.c_val = c.val, !.e_val = e.val],
                         ParamGetF(f.self, "update_period"), inst)
      [] f.pc = "period" ->
           IF WToInt(r.val) = 0 \/ f.rate.n = 0
           THEN DoneA(Err("ZeroDivisionError"), inst)
           ELSE RampLimit(f, RampSlope(f.c_volt, f.val, f.c_val, f.e_val, WToInt(r.val),
                                       f.rate), inst)
      [] f.pc = "limit" ->
           CallA([f EXCEPT !.pc = "slope"], ParamSetF(f.self, "slope", f.slope), inst)
      [] f.pc = "slope" ->
           IF f.block
           THEN CallA([f EXCEPT !.pc = "poll"], ParamGetF(f.self, "slope"), inst)
           ELSE DoneA(Ok(None), inst)
      [] f.pc = "poll" ->
           IF ~SlopeDone(r.val)
           THEN CallA(f, ParamGetF(f.self, "slope"), inst)
           ELSE DoneA(Ok(None), inst)

\* the "ramp" function of a channel: add_function("ramp", call_cmd=self._ramp,
\* args=(self._volt_val, self._ramp_val)) validates its arguments and calls _ramp
RampFunction(f, r, inst) ==
    IF f.pc = "start"
    THEN IF ~InNumbers(f.val, inst.min_val, inst.max_val)
            \/ ~InNumbers(f.rate, RatOf(RampRateMin), RatOf(RampRateMax))
         THEN DoneA(Err("ValueError"), inst)
         ELSE CallA([f EXCEPT !.pc = "done"], RampF(f.self, f.val, f.rate, TRUE), inst)
    ELSE DoneA(Ok(None), inst)

\* set_all from the last channel to the first
SetAllBackwards(f, r, inst) ==
    IF f.i < NumChans
    THEN CallA([f EXCEPT !.pc = "loop", !.i = f.i + 1],
               ParamSetF(ChanObj(NumChans - 1 - f.i), "volt", f.volt), inst)
    ELSE DoneA(Ok(None), inst)

\* HarvardDecadac.set_all
SetAll(f, r, inst) ==
    IF f.i < NumChans
    THEN CallA([f EXCEPT !.pc = "loop", !.i = f.i + 1],
               ParamSetF(ChanObj(f.i), "volt", f.volt), inst)
    ELSE DoneA(Ok(None), inst)

\* ramp_all arming with a blocking ramp
ArmBlockTrue == TRUE

\* chan._ramp(volt, ramp_rate, block=False)
ArmBlock == FALSE

\* HarvardDecadac.ramp_all: pc "start"/"arm" is the first loop, "poll" the second;
\* i is the channel whose call is pending
RampAll(f, r, inst) ==
    CASE f.pc = "start" ->
           CallA([f EXCEPT !.pc = "arm", !.i = 0],
                 RampF(ChanObj(0), f.volt, f.rate, ArmBlock), inst)
      [] f.pc = "arm" /\ f.i + 1 < NumChans ->
           CallA([f EXCEPT !.i = f.i + 1], RampF(ChanObj(f.i + 1), f.volt, f.rate, ArmBlock), inst)
      [] f.pc = "arm" /\ f.i + 1 >= NumChans ->
           CallA([f EXCEPT !.pc = "poll", !.i = 0], ParamGetF(ChanObj(0), "slope"), inst)
      [] f.pc = "poll" /\ r.val # WZero ->
           CallA(f, ParamGetF(ChanObj(f.i), "slope"), inst)
      [] f.pc = "poll" /\ r.val = WZero /\ f.i + 1 < NumChans ->
           CallA([f EXCEPT !.i = f.i + 1], ParamGetF(ChanObj(f.i + 1), "slope"), inst)
      [] f.pc = "poll" /\ r.val = WZero /\ f.i + 1 >= NumChans ->
           DoneA(Ok(None), inst)

(***************************************************************************)
(* Feature detection, identification and construction.  inst.attrs holds   *)
(* the names of the attributes that have been assigned: reading one that   *)
(* is not there is Python's AttributeError.                                *)
(***************************************************************************)
\* the end of HarvardDecadac._feature_detect: version and serial number
FeatureDetectIdentity(f, inst) ==
    IF inst.EEPROM_available
    THEN CallA([f EXCEPT !.pc = "version"], QueryAddressF(InstObj, VersionAddr, 1, FALSE), inst)
    ELSE DoneA(Ok(None), [inst EXCEPT !.version = WZero, !.serial_no = WZero,
                                      !.attrs = @ \cup {"version", "serial_no"}])

\* HarvardDecadac._feature_detect
FeatureDetect(f, r, inst) ==
    CASE f.pc = "start" ->
           CallA([f EXCEPT !.pc = "eeprom"], QueryAddressF(InstObj, EepromIdAddr, 1, FALSE), inst)
      [] f.pc = "eeprom" ->
           CallA([f EXCEPT !.pc = "versa"],
                 QueryAddressF(InstAsSlot0, VersaProbeAddr, 1, TRUE),
                 [inst EXCEPT
                    !.EEPROM_available = (r.exc = NoExc /\ r.val = WOf(EepromMagic)),
                    !.VERSA_EEPROM_available = FALSE,
                    !.attrs = @ \cup {"_EEPROM_available", "_VERSA_EEPROM_available", "_slot"}])
      [] f.pc = "versa" ->
           CallA([f EXCEPT !.pc = "cal"], WriteF(InstObj, <<"k", ";">>),
                 IF r.exc = NoExc THEN [inst EXCEPT !.attrs = @ \ {"_slot"}] ELSE inst)
      [] f.pc = "cal" ->
           LET p == DacParse(r.val)
           IN IF p.exc = DacExc
              THEN FeatureDetectIdentity(f, [inst EXCEPT !.cal_supported = FALSE,
                                                         !.attrs = @ \cup {"_cal_supported"}])
              ELSE IF p.exc # NoExc THEN DoneA(Err(p.exc), inst)
              ELSE IF p.val # <<>>
              THEN FeatureDetectIdentity(f, [inst EXCEPT !.cal_supported = TRUE,
                                                         !.attrs = @ \cup {"_cal_supported"}])
              ELSE FeatureDetectIdentity(f, inst)
      [] f.pc = "version" ->
           CallA([f EXCEPT !.pc = "serial"], QueryAddressF(InstObj, SerialAddr, 1, FALSE),
                 [inst EXCEPT !.version = r.val, !.attrs = @ \cup {"version"}])
      [] f.pc = "serial" ->
           DoneA(Ok(None), [inst EXCEPT !.serial_no = r.val, !.attrs = @ \cup {"serial_no"}])

\* the try/except HarvardDecadacException blocks of _feature_detect
Catches(f, e) == f.k = "_feature_detect" /\ f.pc \in {"eeprom", "versa"} /\ e = DacExc

\* HarvardDecadac.get_idn
GetIdn(f, r, inst) ==
    IF f.pc = "start"
    THEN CallA([f EXCEPT !.pc = "fd"], FeatureDetectF, inst)
    ELSE DoneA(Ok([serial |-> inst.serial_no, hardware_version |-> inst.version]), inst)

\* HarvardDecadac.__init__ with HarvardDecadacSlot.__init__ and
\* HarvardDecadacChannel.__init__ for each of the slots
InitStep(f, r, inst) ==
    IF f.pc = "start"
    THEN CallA([f EXCEPT !.pc = "slots"], FeatureDetectF, inst)
    ELSE IF f.i >= NumSlots
    THEN DoneA(Ok(None), [inst EXCEPT !.constructed = TRUE])
    ELSE IF "_cal_supported" \notin inst.attrs
    THEN DoneA(Err("AttributeError"), inst)
    ELSE CallA([f EXCEPT !.i = f.i + 1],
               ParamSetF(SlotObj(f.i), "slot_mode", "Coarse"),
               [inst EXCEPT !.finecald[f.i] = inst.cal_supported,
                            !.has_initial_value[f.i] = inst.VERSA_EEPROM_available])

(***************************************************************************)
(* Running the frames: Run(m, f, r) resumes frame f with the result r of   *)
(* the call it waited for and runs the driver up to the next ask_raw (the  *)
(* stack then ends with it) or to the end of the operation (the stack is   *)
(* empty and m.result is the result).  An exception is a result too: it    *)
(* passes every frame that does not catch it.                              *)
(***************************************************************************)
Step(f, r, inst) ==
    CASE f.k = "_set_slot" -> SetSlot(f, r, inst)
      [] f.k = "_set_channel" -> SetChannel(f, r, inst)
      [] f.k = "_query_address" -> QueryAddress(f, r, inst)
      [] f.k = "_write_address" -> WriteAddress(f, r, inst)
      [] f.k = "write" -> Write(f, r, inst)
      [] f.k = "param_set" -> ParamSet(f, r, inst)
      [] f.k = "param_get" -> ParamGet(f, r, inst)
      [] f.k = "_set_dac" -> SetDac(f, r, inst)
      [] f.k = "_ramp" -> Ramp(f, r, inst)
      [] f.k = "ramp" -> RampFunction(f, r, inst)
      [] f.k = "set_all" -> SetAll(f, r, inst)
      [] f.k = "ramp_all" -> RampAll(f, r, inst)
      [] f.k = "_feature_detect" -> FeatureDetect(f, r, inst)
      [] f.k = "get_idn" -> GetIdn(f, r, inst)
      [] f.k = "__init__" -> InitStep(f, r, inst)

RECURSIVE Run(_, _, _), Finish(_, _), Continue(_, _)
Run(m, f, r) ==
    IF f.k = "ask_raw"
    THEN [m EXCEPT !.stack = Append(@, f)]
    ELSE IF r.exc # NoExc /\ ~Catches(f, r.exc)
    THEN Finish(m, r)
    ELSE Continue(m, Step(f, r, m.inst))

\* the frame has made the step a: a call, or its return
Continue(m, a) ==
    IF a.t = "call"
    THEN Run([m EXCEPT !.stack = Append(@, a.f), !.inst = a.inst], a.callee, Ok(None))
    ELSE Finish([m EXCEPT !.inst = a.inst], a.r)

Finish(m, r) ==
    IF m.stack = <<>>
    THEN [m EXCEPT !.result = r]
    ELSE Run([m EXCEPT !.stack = SubSeq(@, 1, Len(@) - 1)], m.stack[Len(m.stack)], r)

(***************************************************************************)
(* The device.  It takes a transaction "<letter><arg>;..." and answers one *)
(* "<letter><value>!" block per command, in order.  B and C move its       *)
(* cursor.  A query (a bare letter) is answered with a word of the device, *)
(* every other command with its echo.  A response can also arrive damaged. *)
(***************************************************************************)
\* the commands of a transaction, without their ";"
RECURSIVE SplitCmds(_, _)
SplitCmds(s, cur) ==
    IF s = <<>> THEN (IF cur = <<>> THEN <<>> ELSE <<cur>>)
    ELSE IF Head(s) = ";" THEN <<cur>> \o SplitCmds(Tail(s), <<>>)
    ELSE SplitCmds(Tail(s), Append(cur, Head(s)))

Letters(cmd) == LET c == SplitCmds(cmd, <<>>) IN {c[i][1] : i \in 1..Len(c)}

RECURSIVE DeviceCursorFold(_, _)
DeviceCursorFold(cur, cmds) ==
    IF cmds = <<>> THEN cur
    ELSE LET c == Head(cmds)
             n == WToInt(ParseInt(Tail(c)).val)
         IN DeviceCursorFold(
              IF c[1] = "B" THEN [cur EXCEPT !.slot = n]
              ELSE IF c[1] = "C" THEN [cur EXCEPT !.chan = n]
              ELSE cur,
              Tail(cmds))

\* the cursor after the device has taken the transaction
DeviceCursor(cur, cmd) == DeviceCursorFold(cur, SplitCmds(cmd, <<>>))

RECURSIVE FaithfulFold(_, _)
FaithfulFold(cmds, word) ==
    IF cmds = <<>> THEN <<>>
    ELSE (IF Len(Head(cmds)) = 1 THEN Head(cmds) \o word ELSE Head(cmds))
         \o <<"!">> \o FaithfulFold(Tail(cmds), word)

\* the well-formed response, a query answered with the text word
Faithful(cmd, word) == FaithfulFold(SplitCmds(cmd, <<>>), word)

IsQuery(cmd) == Len(cmd) = 2

\* the echo of a transaction of commands with arguments, with its line end
Echo(cmd) == Faithful(cmd, <<>>) \o <<"\r", "\n">>

RECURSIVE FlipDigits(_)
FlipDigits(s) ==
    IF s = <<>> THEN <<>>
    ELSE <<IF Head(s) \in DigitSet THEN Digits[10 - DigitVal(Head(s))] ELSE Head(s)>>
         \o FlipDigits(Tail(s))

\* the damaged responses: no terminator, a payload that is no number, no payload,
\* nothing at all, and to a command with a number the echo of another number
Damaged(cmd) ==
    {SubSeq(Faithful(cmd, <<"1">>), 1, Len(Faithful(cmd, <<"1">>)) - 1),
     <<cmd[1], "x", "!">>, <<cmd[1], "!">>, <<>>}
    \cup (IF IsQuery(cmd) THEN {} ELSE {FlipDigits(Faithful(cmd, <<>>))})

\* the largest word of the device: 2**32 - 1
WordMax == [neg |-> FALSE, mag |-> <<Limb - 1, Limb - 1>>]

ChannelRegs == 1536 .. (1536 + (16 * 4) * NumSlots - 1)

\* the words the device can hold at an address, as decimal text
DeviceWords(addr) ==
    IF addr = EepromIdAddr THEN {Dec(EepromMagic), <<"0">>}
    ELSE IF addr \in ChannelRegs
    THEN LET off == (addr - 1536) % 16
         IN IF off = 9 THEN {<<"0">>, Dec(32768), Dec(65536)}
            ELSE IF off = 0 THEN {Dec(100), <<"0">>}
            ELSE IF off = 7 THEN {<<"0">>, <<"1">>}
            ELSE {<<"0">>}
    ELSE IF addr = MaxAddr - 1 THEN {DecW(WordMax), <<"0">>}
    ELSE {<<"1">>, <<"2">>}

\* the words the device can answer the pending query with: the register the driver
\* has just addressed, the value it has just written, the slot mode, the "k;" answer
QueryWords(stk) ==
    LET g == stk[Len(stk) - 1]
    IN IF g.k = "_query_address" THEN DeviceWords(g.addr)
       ELSE IF g.k = "_write_address" THEN {DecW(g.val), <<"7">>}
       ELSE {<<"2">>}

\* the responses the device can give to the pending transaction
Responses(stk) ==
    LET cmd == stk[Len(stk)].cmd
    IN (IF IsQuery(cmd) THEN {Faithful(cmd, w) : w \in QueryWords(stk)}
        ELSE {Echo(cmd)})
       \cup Damaged(cmd)

(***************************************************************************)
(* State                                                                   *)
(***************************************************************************)
VARIABLES
    stack,      \* the frames of the running operation, the pending ask_raw last
    inst,       \* the instrument's attributes and the channels' manual parameters
    cursor,     \* the device's selected slot and channel
    op,         \* the operation running, or the last one run (its first frame)
    outcome,    \* [status, exc, val] of op
    log,        \* the transactions of op: [cmd, self, cur, echoed, ended, answer], cur the
                \* device's cursor when it received cmd from the object self
    logUnit,    \* in __init__, set_all and ramp_all: the call the log belongs to
    ops,        \* the number of operations started since construction
    waiting     \* with two callers on the transport: the stack, op, outcome, log and
                \* logUnit of the caller that is not running; empty with one caller

vars == <<stack, inst, cursor, op, outcome, log, logUnit, ops, waiting>>

\* the operations after construction that are explored
MaxOps == 2

\* the transactions of one call that are explored
MaxLog == 16

\* the default range of the constructor: min_val = -5, max_val = 5
DefaultMin == 0 - 5

DefaultMax == 5

\* ramp_rate: initial_value = 0.1
DefaultRampRate == Rat(1, 10)

\* the attributes of an instrument before __init__ has run
NewInst ==
    [attrs |-> {},
     EEPROM_available |-> FALSE,
     VERSA_EEPROM_available |-> FALSE,
     cal_supported |-> FALSE,
     version |-> WZero,
     serial_no |-> WZero,
     finecald |-> [sl \in 0..(NumSlots - 1) |-> FALSE],
     has_initial_value |-> [sl \in 0..(NumSlots - 1) |-> FALSE],
     enable_ramp |-> [ch \in 0..(NumChans - 1) |-> FALSE],
     ramp_rate |-> [ch \in 0..(NumChans - 1) |-> DefaultRampRate],
     min_val |-> RatOf(DefaultMin),
     max_val |-> RatOf(DefaultMax),
     constructed |-> FALSE]

Idle == stack = <<>>

Outcome(r) ==
    IF r.exc = NoExc THEN [status |-> "returned", exc |-> NoExc, val |-> r.val]
    ELSE [status |-> "raised", exc |-> r.exc, val |-> None]

Running == [status |-> "running", exc |-> NoExc, val |-> None]

\* the call of __init__ (a slot), set_all or ramp_all (a channel) that is running
Unit(stk) ==
    IF stk # <<>> /\ stk[1].k \in {"__init__", "set_all", "ramp_all"}
    THEN <<stk[1].pc, stk[1].i>> ELSE <<"op", 0>>

\* the operation f has run up to its first transaction, or to its end: m
Started(f, m) ==
    /\ Idle
    /\ f.k = "__init__" \/ ops < MaxOps
    /\ ops' = IF f.k = "__init__" THEN 0 ELSE ops + 1
    /\ stack' = m.stack
    /\ inst' = m.inst
    /\ op' = f
    /\ outcome' = IF m.stack = <<>> THEN Outcome(m.result) ELSE Running
    /\ log' = <<>>
    /\ logUnit' = Unit(m.stack)
    /\ UNCHANGED <<cursor, waiting>>

\* an operation starts: its frame runs up to its first transaction
Start(f) == Started(f, Run([stack |-> <<>>, inst |-> inst, result |-> Ok(None)], f, Ok(None)))

\* the command the device has taken, given its response: the damaged echo of
\* another number is the echo of the command the device has understood
Taken(cmd, resp) ==
    IF ~IsQuery(cmd) /\ resp = FlipDigits(Faithful(cmd, <<>>)) THEN FlipDigits(cmd) ELSE cmd

\* the response ends with the terminator "!"
Terminated(resp) == Strip(resp) # <<>> /\ Strip(resp)[Len(Strip(resp))] = "!"

\* the record of a transaction: whether a command was echoed as sent, whether the
\* response had its terminator, the answer to a query
Entry(t, cur, resp) ==
    [cmd |-> t.cmd, self |-> t.self, cur |-> cur,
     echoed |-> ~IsQuery(t.cmd) /\ Strip(resp) = Faithful(t.cmd, <<>>),
     ended |-> Terminated(resp),
     answer |-> IF IsQuery(t.cmd) THEN resp ELSE <<>>]

\* the device has taken the pending command t and answered resp, and the driver
\* has run on to m
Exchanged(t, resp, m) ==
    /\ stack' = m.stack
    /\ inst' = m.inst
    /\ cursor' = DeviceCursor(cursor, Taken(t.cmd, resp))
    /\ outcome' = IF m.stack = <<>> THEN Outcome(m.result) ELSE outcome
    /\ log' = IF logUnit # Unit(stack)
              THEN <<Entry(t, cursor, resp)>>
              ELSE Append(log, Entry(t, cursor, resp))
    /\ logUnit' = Unit(stack)
    /\ UNCHANGED <<op, ops, waiting>>

\* one transaction: the device takes the pending command and answers, and the
\* driver runs on to its next transaction or to the end of the operation
Exchange ==
    /\ stack # <<>>
    /\ logUnit # Unit(stack) \/ Len(log) < MaxLog
    /\ \E resp \in Responses(stack) :
         Exchanged(stack[Len(stack)], resp,
                   Finish([stack |-> SubSeq(stack, 1, Len(stack) - 1), inst |-> inst,
                           result |-> Ok(None)], Ok(resp)))

(***************************************************************************)
(* SpecInit: construction of the instrument, then get_idn any number of    *)
(* times.                                                                  *)
(***************************************************************************)
NoOp == [k |-> "none"]

NoOutcome == [status |-> "none", exc |-> NoExc, val |-> None]

InitNew ==
    /\ stack = <<>>
    /\ inst = NewInst
    /\ cursor = [slot |-> 0, chan |-> 0]
    /\ op = NoOp
    /\ outcome = NoOutcome
    /\ log = <<>>
    /\ logUnit = <<"op", 0>>
    /\ ops = 0
    /\ waiting = <<>>

\* HarvardDecadac(name, address): __init__
Construct ==
    /\ op = NoOp
    /\ Start(InitF)

\* instrument.get_idn()
GetIdnOp ==
    /\ inst.constructed
    /\ Start(GetIdnF)

NextInit == Construct \/ GetIdnOp \/ Exchange

SpecInit == InitNew /\ [][NextInit]_vars

(***************************************************************************)
(* Spec: the operations of a constructed instrument, one caller.           *)
(***************************************************************************)
\* the attributes of an instrument whose construction has succeeded
Constructed(eeprom, cal) ==
    [NewInst EXCEPT
       !.attrs = {"_EEPROM_available", "_VERSA_EEPROM_available", "_cal_supported",
                  "version", "serial_no"},
       !.EEPROM_available = eeprom,
       !.cal_supported = cal,
       !.version = IF eeprom THEN WOf(1) ELSE WZero,
       !.serial_no = IF eeprom THEN WOf(1) ELSE WZero,
       !.finecald = [sl \in 0..(NumSlots - 1) |-> cal],
       !.constructed = TRUE]

\* the last transactions of __init__: slot_mode.set("Coarse") of the last slot
InitLastLog ==
    <<Entry(AskRaw(SlotObj(NumSlots - 1), SlotSelect(SlotObj(NumSlots - 1))),
            [slot |-> NumSlots - 2, chan |-> 0],
            Echo(SlotSelect(SlotObj(NumSlots - 1)))),
      Entry(AskRaw(SlotObj(NumSlots - 1), Cmd("M", Dec(SlotModeCode("Coarse")))),
            [slot |-> NumSlots - 1, chan |-> 0],
            Echo(Cmd("M", Dec(SlotModeCode("Coarse")))))>>

\* the state in which HarvardDecadac(name, address) returns
Init ==
    /\ stack = <<>>
    /\ inst \in {Constructed(TRUE, TRUE), Constructed(FALSE, FALSE)}
    /\ cursor = [slot |-> NumSlots - 1, chan |-> 0]
    /\ op = InitF
    /\ outcome = Outcome(Ok(None))
    /\ log = InitLastLog
    /\ logUnit = <<"slots", NumSlots>>
    /\ ops = 0
    /\ waiting = <<>>

\* the channels and the slot the single-object operations are called on
TestChans == {6}

TestSlots == {3}

\* voltages: the lower end of the range, its middle, and one on each side outside it
Volts == {RatOf(DefaultMin), RatOf(0), RatOf(6), RatOf(0 - 6)}

\* ramp rates: the default and zero
Rates == {DefaultRampRate, RatOf(0)}

ChanParams == {"volt", "lower_ramp_limit", "upper_ramp_limit", "update_period", "slope"}

\* instrument.set_all(volt)
SetAllOp ==
    /\ Idle
    /\ \E volt \in Volts :
         Start(SetAllF(volt))

\* instrument.ramp_all(volt, ramp_rate)
RampAllOp ==
    /\ Idle
    /\ \E volt \in {RatOf(DefaultMin), RatOf(6)}, rate \in Rates :
         Start(RampAllF(volt, rate))

\* channel.volt.set(volt)
VoltSetOp ==
    /\ Idle
    /\ \E ch \in TestChans, volt \in Volts :
         Start(ParamSetF(ChanObj(ch), "volt", volt))

\* channel.lower_ramp_limit.set(volt), channel.upper_ramp_limit.set(volt)
LimitSetOp ==
    /\ Idle
    /\ \E ch \in TestChans, name \in {"lower_ramp_limit", "upper_ramp_limit"},
          volt \in {RatOf(0), RatOf(6), RatOf(0 - 6)} :
         Start(ParamSetF(ChanObj(ch), name, volt))

\* channel.update_period.set(period)
PeriodSetOp ==
    /\ Idle
    /\ \E ch \in TestChans, period \in {PeriodMin - 1, 100} :
         Start(ParamSetF(ChanObj(ch), "update_period", period))

\* channel.slope.set(slope)
SlopeSetOp ==
    /\ Idle
    /\ \E ch \in TestChans, slope \in {0 - 5, 0} :
         Start(ParamSetF(ChanObj(ch), "slope", slope))

\* channel.enable_ramp.set(flag)
EnableRampOp ==
    /\ Idle
    /\ \E ch \in TestChans, flag \in BOOLEAN :
         Start(ParamSetF(ChanObj(ch), "enable_ramp", flag))

\* channel.ramp_rate.set(rate)
RampRateOp ==
    /\ Idle
    /\ \E ch \in TestChans, rate \in {RatOf(1), RatOf(11)} :
         Start(ParamSetF(ChanObj(ch), "ramp_rate", rate))

\* channel.<parameter>.get()
ChanGetOp ==
    /\ Idle
    /\ \E ch \in TestChans, name \in ChanParams :
         Start(ParamGetF(ChanObj(ch), name))

\* channel.ramp(val, rate)
RampFunctionOp ==
    /\ Idle
    /\ \E ch \in TestChans, val \in {RatOf(0), RatOf(6)}, rate \in {DefaultRampRate, RatOf(11)} :
         Start(RampFunctionF(ChanObj(ch), val, rate))

\* channel._ramp(val, rate, block)
RampOp ==
    /\ Idle
    /\ \E ch \in TestChans, val \in {RatOf(DefaultMin), RatOf(0)}, rate \in Rates,
          block \in BOOLEAN :
         Start(RampF(ChanObj(ch), val, rate, block))

\* slot.slot_mode.set(mode)
SlotModeSetOp ==
    /\ Idle
    /\ \E sl \in TestSlots, mode \in {"Fine", "FineCald"} :
         Start(ParamSetF(SlotObj(sl), "slot_mode", mode))

\* slot.slot_mode.get()
SlotModeGetOp ==
    /\ Idle
    /\ \E sl \in TestSlots :
         Start(ParamGetF(SlotObj(sl), "slot_mode"))

Next ==
    \/ SetAllOp
    \/ VoltSetOp
    \/ LimitSetOp
    \/ PeriodSetOp
    \/ SlopeSetOp
    \/ EnableRampOp
    \/ RampRateOp
    \/ ChanGetOp
    \/ RampFunctionOp
    \/ RampOp
    \/ SlotModeSetOp
    \/ SlotModeGetOp
    \/ GetIdnOp
    \/ Exchange

Spec == Init /\ [][Next]_vars

(***************************************************************************)
(* SpecFleet: ramp_all on a constructed instrument.                        *)
(***************************************************************************)
NextFleet == RampAllOp \/ Exchange

SpecFleet == Init /\ [][NextFleet]_vars

(***************************************************************************)
(* SpecReg: the register access of DacReader, called on a channel of a     *)
(* constructed instrument.                                                 *)
(***************************************************************************)
\* the object whose registers are read and written: slot 1, channel 2
RegObj == ChanObj(6)

\* addresses: the ends of the valid range and their neighbours
RegAddrs == {0 - 1, 0, MaxAddr - 1, MaxAddr, MaxAddr + 1}

\* values: -1, 0, 1, 2**32 - 1, 2**32
RegVals == {WOf(0 - 1), WZero, WOf(1), WordMax, [neg |-> FALSE, mag |-> <<0, 0, 1>>]}

\* the word counts of a read that are explored
MaxCount == 2

\* channel._query_address(addr, count, versa_eeprom)
RegReadOp ==
    /\ Idle
    /\ \E addr \in RegAddrs, count \in 0..MaxCount, versa \in BOOLEAN :
         Start(QueryAddressF(RegObj, addr, count, versa))

\* channel._write_address(addr, val, versa_eeprom)
RegWriteOp ==
    /\ Idle
    /\ \E addr \in RegAddrs, val \in RegVals, versa \in BOOLEAN :
         Start(WriteAddressF(RegObj, addr, val, versa))

NextReg == RegReadOp \/ RegWriteOp \/ Exchange

SpecReg == Init /\ [][NextReg]_vars

(***************************************************************************)
(* SpecCodec: the voltage codec of an instrument constructed with the      *)
(* range min_val, max_val, applied to a voltage and then to its code.      *)
(***************************************************************************)
\* the voltages of a range that are explored: the fractions j / CodecGrid of it
CodecGrid == 60

CodecRanges == {<<0 - 5, 5>>, <<0, 10>>, <<0 - 10, 10>>, <<0, 1>>, <<0 - 1, 2>>}

\* fractions of the range halfway between two codes
CodecTies == {Rat(1, 2 * CodeMax), Rat(3, 2 * CodeMax), Rat(1, 2), Rat(2 * CodeMax - 1, 2 * CodeMax)}

\* from one grid step below the range to one above it
CodecFracs == {Rat(j, CodecGrid) : j \in (0 - 1)..(CodecGrid + 1)} \cup CodecTies

CodecInst(rg) == [NewInst EXCEPT !.min_val = RatOf(rg[1]), !.max_val = RatOf(rg[2])]

CodecVolt(i, fr) == RatAdd(i.min_val, RatMul(fr, RatSub(i.max_val, i.min_val)))

InitCodec ==
    /\ stack = <<>>
    /\ inst \in {CodecInst(rg) : rg \in CodecRanges}
    /\ cursor = [slot |-> 0, chan |-> 0]
    /\ op \in {[k |-> "codec", volt |-> CodecVolt(inst, fr)] : fr \in CodecFracs}
    /\ outcome = NoOutcome
    /\ log = <<>>
    /\ logUnit = <<"op", 0>>
    /\ ops = 0
    /\ waiting = <<>>

\* code = self._dac_v_to_code(volt)
VToCode ==
    /\ op.k = "codec"
    /\ outcome.status = "none"
    /\ outcome' = Outcome(DacVToCode(op.volt, inst.min_val, inst.max_val))
    /\ UNCHANGED <<stack, inst, cursor, op, log, logUnit, ops, waiting>>

\* self._dac_code_to_v(code)
CodeToV ==
    /\ op.k = "codec"
    /\ outcome.status = "returned"
    /\ op' = [k |-> "decoded", volt |-> op.volt, code |-> outcome.val]
    /\ outcome' = Outcome(Ok(DacCodeToV(outcome.val, inst.min_val, inst.max_val)))
    /\ UNCHANGED <<stack, inst, cursor, log, logUnit, ops, waiting>>

NextCodec == VToCode \/ CodeToV

SpecCodec == InitCodec /\ [][NextCodec]_vars

(***************************************************************************)
(* Properties                                                              *)
(***************************************************************************)
\* the commands of the log, in the order the device received them
LogCmds == [j \in 1..Len(log) |-> log[j].cmd]

IsPrefix(s, t) == Len(s) <= Len(t) /\ SubSeq(t, 1, Len(s)) = s

\* the number a query of the log was answered with (limbs), once it is one
AnswerMag(j) == ParseInt(DacParse(log[j].answer).val).val.mag

\* the operation has failed with the driver's error and without a transaction
RejectedUnsent ==
    /\ stack = <<>>
    /\ log = <<>>
    /\ outcome.status = "raised"
    /\ outcome.exc = DacExc

\* the operation has sent a transaction, or is about to
Accepted == stack # <<>> \/ log # <<>>

AddrOutside(addr) == addr < 0 \/ addr > 1107296266

\* a value below 0 or not below 2**32
ValOutside(val) == val.neg \/ Len(val.mag) > 2

\* C5: a register read of one word or more, or a register write, at an address
\* outside [0, 1107296266], and a register write of a value outside [0, 2^32),
\* fails with the driver's error before any transaction is sent (the slot select
\* of the versa EEPROM included); the addresses 0 and 1107296266 are accepted.
C5_RejectedBeforeAnyTransaction ==
    /\ (op.k = "_query_address" /\ op.count >= 1 /\ AddrOutside(op.addr)) => RejectedUnsent
    /\ (op.k = "_write_address" /\ (AddrOutside(op.addr) \/ ValOutside(op.val)))
          => RejectedUnsent
    /\ (op.k = "_query_address" /\ op.count >= 1 /\ op.addr \in {0, 1107296266})
          => Accepted
    /\ (op.k = "_write_address" /\ op.addr \in {0, 1107296266} /\ ~ValOutside(op.val))
          => Accepted

\* a versa-EEPROM write one past the last address has been rejected unsent
C5_Witness ==
    /\ op.k = "_write_address"
    /\ op.versa
    /\ op.addr = 1107296267
    /\ ~ValOutside(op.val)
    /\ RejectedUnsent

\* the transactions of a read of o.count words at o.addr
ReadPlan(o) ==
    (IF o.versa THEN <<SlotSelect(o.self)>> ELSE <<>>)
    \o [j \in 1..(2 * o.count) |->
          IF j % 2 = 1 THEN <<"A">> \o Dec(o.addr + (j \div 2)) \o <<";">>
          ELSE IF o.versa THEN <<"e", ";">> ELSE <<"p", ";">>]

\* the place in the log of the answer with word i of the read o
WordAt(o, i) == (IF o.versa THEN 1 ELSE 0) + 2 * i + 2

\* a word as its two limbs
TwoLimbs(m) == IF m = <<>> THEN <<0, 0>> ELSE IF Len(m) = 1 THEN <<m[1], 0>> ELSE m

\* the limbs of the sum of word_i * 2^(32 * (n - 1 - i)) for i = from..n-1, the
\* words taken from the log: word n-1 lowest
RECURSIVE WordsJoined(_, _)
WordsJoined(o, from) ==
    IF from >= o.count THEN <<>>
    ELSE WordsJoined(o, from + 1) \o TwoLimbs(AnswerMag(WordAt(o, from)))

\* C6: a read of n >= 1 words at a issues, for i = 0..n-1 in order, "A{a+i};" and
\* then the query command, and returns the sum of word_i * 2^(32 * (n-1-i)), so
\* that the words 1, 2 give (1 << 32) | 2; a read of 0 words returns 0 and issues
\* no transaction.
C6_ReadWordsMostSignificantFirst ==
    op.k = "_query_address" =>
      /\ op.count = 0 =>
            /\ stack = <<>> /\ log = <<>>
            /\ outcome.status = "returned" /\ outcome.val = WZero
      /\ (op.count >= 1 /\ ~AddrOutside(op.addr)) => IsPrefix(LogCmds, ReadPlan(op))
      /\ (op.count >= 1 /\ outcome.status = "returned") =>
            /\ LogCmds = ReadPlan(op)
            /\ \A i \in 0..(op.count - 1) : log[WordAt(op, i) - 1].echoed
            /\ outcome.val = [neg |-> FALSE, mag |-> MagNorm(WordsJoined(op, 0))]
      /\ (op.count = 2 /\ outcome.status = "returned"
            /\ AnswerMag(WordAt(op, 0)) = <<1>> /\ AnswerMag(WordAt(op, 1)) = <<2>>)
            => outcome.val.mag = <<2, 0, 1>>

\* a read of two words has returned, the device having answered 1 and then 2
C6_Witness ==
    /\ op.k = "_query_address"
    /\ op.count = 2
    /\ outcome.status = "returned"
    /\ Len(log) = 4
    /\ AnswerMag(2) = <<1>>
    /\ AnswerMag(4) = <<2>>

\* the transactions of the write o
WritePlan(o) ==
    (IF o.versa THEN <<SlotSelect(o.self)>> ELSE <<>>)
    \o << <<"A">> \o Dec(o.addr) \o <<";">>,
          <<IF o.versa THEN "E" ELSE "P">> \o DecW(o.val) \o <<";">>,
          IF o.versa THEN <<"e", ";">> ELSE <<"p", ";">> >>

\* the read-back of the finished write is a number
ReadBackIsNumber ==
    /\ DacParse(log[Len(log)].answer).exc = NoExc
    /\ ParseInt(DacParse(log[Len(log)].answer).val).ok

VoltInRange == ~RatLess(op.volt, inst.min_val) /\ ~RatLess(inst.max_val, op.volt)

\* one code step: (max_val - min_val) / 65535
CodeStep == RatMul(RatSub(inst.max_val, inst.min_val), Rat(1, 65535))

SlotScoped == {"M", "m"}

ChannelScoped == {"U", "L", "S", "T", "D"}

\* transaction j of the log, if scoped, follows the echoed select of its issuer and
\* was received with the cursor on the issuer
ScopedAfterSelect(j) ==
    /\ Letters(log[j].cmd) \cap SlotScoped # {} =>
          /\ j > 1
          /\ log[j - 1].self = log[j].self
          /\ log[j - 1].cmd = <<"B">> \o Dec(log[j].self.slot) \o <<";">>
          /\ log[j - 1].echoed
          /\ log[j].cur.slot = log[j].self.slot
    /\ Letters(log[j].cmd) \cap ChannelScoped # {} =>
          /\ j > 1
          /\ log[j - 1].self = log[j].self
          /\ log[j - 1].cmd = <<"B">> \o Dec(log[j].self.slot) \o <<";">>
                                \o <<"C">> \o Dec(log[j].self.chan) \o <<";">>
          /\ log[j - 1].echoed
          /\ log[j].cur = [slot |-> log[j].self.slot, chan |-> log[j].self.chan]

\* the transaction about to be sent, if scoped, finds the cursor on its issuer
PendingOnIssuer ==
    stack # <<>> =>
      /\ Letters(stack[Len(stack)].cmd) \cap SlotScoped # {} =>
            cursor.slot = stack[Len(stack)].self.slot
      /\ Letters(stack[Len(stack)].cmd) \cap ChannelScoped # {} =>
            cursor = [slot |-> stack[Len(stack)].self.slot,
                      chan |-> stack[Len(stack)].self.chan]

\* C1: in any sequence of operations of one caller, a slot-scoped command (M, m)
\* reaches the device only immediately after a successful slot select of the
\* issuing slot, and a channel-scoped command (U, L, S, T, D) only immediately
\* after a successful slot and channel select of the issuing channel, so that the
\* device's cursor is the issuer's when the command is received.
C1_ScopedCommandsFollowSelect ==
    /\ \A j \in 1..Len(log) : ScopedAfterSelect(j)
    /\ PendingOnIssuer

\* a channel-scoped command has been received after a select that moved the cursor
\* from another slot to the issuer's
C1_Witness ==
    \E j \in 2..Len(log) :
      /\ Letters(log[j].cmd) \cap ChannelScoped # {}
      /\ log[j - 1].cur.slot # log[j].self.slot
      /\ log[j].cur.slot = log[j].self.slot

\* transaction j of the log reads a word of the slope register of its issuer
IsSlopeRead(j) ==
    \/ log[j].cmd = <<"A">> \o Dec(BaseAddr(log[j].self) + 6) \o <<";">>
    \/ log[j].cmd = <<"A">> \o Dec(BaseAddr(log[j].self) + 7) \o <<";">>

\* the answer j of the log is the number 0
AnswerZero(j) ==
    /\ DacParse(log[j].answer).exc = NoExc
    /\ ParseInt(DacParse(log[j].answer).val).ok
    /\ AnswerMag(j) = <<>>

\* the log ends with a read of the two words of the slope register of channel c
\* that has returned 0
SlopeReadZeroAtEnd(c) ==
    /\ Len(log) >= 4
    /\ log[Len(log) - 3].cmd = <<"A">> \o Dec(BaseAddr(c) + 6) \o <<";">>
    /\ log[Len(log) - 2].cmd = <<"p", ";">>
    /\ AnswerZero(Len(log) - 2)
    /\ log[Len(log) - 1].cmd = <<"A">> \o Dec(BaseAddr(c) + 7) \o <<";">>
    /\ log[Len(log)].cmd = <<"p", ";">>
    /\ AnswerZero(Len(log))

\* the voltage the first read of the log has returned: the current voltage
LogVolt == DacCodeToV(WToInt([neg |-> FALSE, mag |-> AnswerMag(2)]), inst.min_val, inst.max_val)

\* the block argument of the ramp that runs: the ramp function always blocks
RampBlocks == IF op.k = "_ramp" THEN op.block ELSE TRUE

\* C3: a ramp called with block=true on a channel whose voltage differs from the
\* target does not return until a read of the channel's slope register has
\* returned 0; with block=false it returns immediately after the slope write and
\* issues no slope read.
C3_BlockingRampWaitsForZeroSlope ==
    op.k \in {"_ramp", "ramp"} =>
      /\ (outcome.status = "returned" /\ Len(log) >= 2 /\ LogVolt # op.val) =>
            IF RampBlocks
            THEN SlopeReadZeroAtEnd(op.self)
            ELSE Letters(log[Len(log)].cmd) = {"S"}
      /\ ~RampBlocks => \A j \in 1..Len(log) : ~IsSlopeRead(j)

\* a blocking ramp has returned after a slope read of 1 and then one of 0
C3_Witness ==
    /\ op.k = "_ramp"
    /\ op.block
    /\ outcome.status = "returned"
    /\ Len(log) = 16
    /\ AnswerMag(12) = <<1>>
    /\ SlopeReadZeroAtEnd(op.self)

\* the transactions of the direct set of the running voltage set
DirectPlan ==
    << <<"B">> \o Dec(op.self.slot) \o <<";">> \o <<"C">> \o Dec(op.self.chan) \o <<";">>,
       <<"U", "6", "5", "5", "3", "5", ";", "L", "0", ";", "D">>
         \o Dec(DacVToCode(op.value, inst.min_val, inst.max_val).val) \o <<";">> >>

\* C4: with enable_ramp false, setting a channel's voltage to a value in its
\* range issues, after the channel select, exactly the one transaction
\* "U65535;L0;D{code};" with code the code of the voltage: no limit write, no
\* slope write, no voltage read and no slope poll.
C4_DirectSetIsOneTransaction ==
    (op.k = "param_set" /\ op.name = "volt" /\ ~inst.enable_ramp[ChanIndex(op.self)]
       /\ InNumbers(op.value, inst.min_val, inst.max_val)) =>
      /\ IsPrefix(LogCmds, DirectPlan)
      /\ outcome.status = "returned" => LogCmds = DirectPlan
      /\ (outcome.status = "returned" /\ op.value = RatOf(0)
            /\ inst.min_val = RatOf(0 - 5) /\ inst.max_val = RatOf(5)) =>
            log[2].cmd = <<"U", "6", "5", "5", "3", "5", ";", "L", "0", ";",
                           "D", "3", "2", "7", "6", "8", ";">>

\* volt.set(0) has returned on a channel that does not ramp, after an operation
\* that left the cursor elsewhere
C4_Witness ==
    /\ op.k = "param_set"
    /\ op.name = "volt"
    /\ op.value = RatOf(0)
    /\ ~inst.enable_ramp[ChanIndex(op.self)]
    /\ outcome.status = "returned"
    /\ Len(log) = 2
    /\ ops = 2

\* the call of ramp_all that follows the call u: the next channel's ramp, after
\* the last channel's the first channel's poll, then the next channel's poll
NextUnit(u) ==
    IF u[1] = "arm"
    THEN (IF u[2] + 1 < 20 THEN <<"arm", u[2] + 1>> ELSE <<"poll", 0>>)
    ELSE <<"poll", u[2] + 1>>

\* the channel with index i, slot-ascending and then channel-ascending (0..3)
NthChannel(i) == [kind |-> "chan", slot |-> i \div 4, chan |-> i % 4]

\* ramp_all has left the call the log belongs to
UnitLeft == outcome.status = "returned" \/ (stack # <<>> /\ Unit(stack) # logUnit)

\* the calls of ramp_all: while arming no slope register is polled, while polling
\* no slope is written; a ramp is left with the slope armed unless the channel is
\* at the target; a poll is left, and ramp_all returns, on a slope read of 0
FleetPhases ==
    op.k = "ramp_all" =>
      /\ logUnit[1] = "arm" =>
            /\ \A j \in 1..Len(log) :
                  log[j].self = NthChannel(logUnit[2]) /\ ~IsSlopeRead(j)
            /\ UnitLeft =>
                  \/ Len(log) = 2 /\ LogVolt = op.volt
                  \/ Len(log) > 2 /\ LogVolt # op.volt
                       /\ Letters(log[Len(log)].cmd) = {"S"}
      /\ logUnit[1] = "poll" =>
            /\ \A j \in 1..Len(log) :
                  log[j].self = NthChannel(logUnit[2])
                  /\ Letters(log[j].cmd) \cap ChannelScoped = {}
            /\ UnitLeft => SlopeReadZeroAtEnd(NthChannel(logUnit[2]))
      /\ outcome.status = "returned" => logUnit = <<"poll", 19>>

\* ramp_all starts with the ramp of channel 0 and goes from a call to the next
FleetOrder ==
    /\ (stack = <<>> /\ op'.k = "ramp_all" /\ stack' # <<>>) => Unit(stack') = <<"arm", 0>>
    /\ (op.k = "ramp_all" /\ stack # <<>> /\ stack' # <<>>) =>
          Unit(stack') \in {Unit(stack), NextUnit(Unit(stack))}

\* C2: ramp_all issues the slope-arming command of every channel that needs a
\* ramp before it issues the first slope poll, visits the channels slot-ascending
\* and then channel-ascending (0..3) both when arming and when polling, and
\* returns only after the slope register of every channel has been read as 0.
C2_ArmAllThenPollAll == []FleetPhases /\ [][FleetOrder]_vars

\* ramp_all has returned from the poll of the last channel
C2_Witness ==
    /\ op.k = "ramp_all"
    /\ op.volt = RatOf(0 - 5)
    /\ outcome.status = "returned"
    /\ logUnit = <<"poll", 19>>
    /\ SlopeReadZeroAtEnd(NthChannel(19))

\* a probe of _feature_detect is waiting for the device
ProbePending ==
    /\ stack # <<>>
    /\ \E j \in 1..Len(stack) :
         stack[j].k = "_feature_detect" /\ stack[j].pc \in {"eeprom", "versa", "cal"}

\* C8: feature detection never propagates a probe failure: whatever the device
\* answers to the EEPROM-identity read, the versa-EEPROM probe and the calibration
\* probe (a malformed terminator, a wrong echo, a payload that is no number), the
\* operation does not end with an error on that answer.  An answer of nothing at
\* all, which is Python's IndexError, is left aside.
C8_ProbeFailureNotPropagated ==
    [][ProbePending => (outcome'.status # "raised" \/ outcome'.exc = "IndexError")]_vars

\* C9: the capability flags keep the values of construction: no operation on the
\* constructed instrument changes any of them.
C9_FlagsFixedAfterConstruction ==
    [][/\ inst'.EEPROM_available = inst.EEPROM_available
       /\ inst'.VERSA_EEPROM_available = inst.VERSA_EEPROM_available
       /\ inst'.cal_supported = inst.cal_supported]_vars

\* C11: for a volt below min_val or above max_val the conversion to a code fails
\* with the range error, and a voltage set or a ramp-limit set with such a value
\* fails without a transaction sent to the device.
C11_OutOfRangeRejectedUnsent ==
    (op.k = "param_set" /\ op.name \in {"volt", "lower_ramp_limit", "upper_ramp_limit"}
       /\ (RatLess(op.value, inst.min_val) \/ RatLess(inst.max_val, op.value))) =>
      /\ DacVToCode(op.value, inst.min_val, inst.max_val).exc = "ValueError"
      /\ stack = <<>>
      /\ log = <<>>
      /\ outcome.status = "raised"
      /\ outcome.exc = "ValueError"

\* a set of the lower ramp limit to a voltage below the range has failed unsent
C11_Witness ==
    /\ op.k = "param_set"
    /\ op.name = "lower_ramp_limit"
    /\ RatLess(op.value, inst.min_val)
    /\ outcome.status = "raised"
    /\ log = <<>>

(***************************************************************************)
(* SpecParse: the response parser applied to a response.                   *)
(***************************************************************************)
\* the longest response that is explored
MaxRespLen == 3

RespAlphabet == {"A", "1", "!", " ", "\n"}

\* every response over the alphabet up to the length, and "A1536!"
ParseResps ==
    UNION {[1..n -> RespAlphabet] : n \in 0..MaxRespLen}
    \cup {<<"A", "1", "5", "3", "6", "!">>}

InitParse ==
    /\ stack = <<>>
    /\ inst = NewInst
    /\ cursor = [slot |-> 0, chan |-> 0]
    /\ op \in {[k |-> "_dac_parse", resp |-> r] : r \in ParseResps}
    /\ outcome = NoOutcome
    /\ log = <<>>
    /\ logUnit = <<"op", 0>>
    /\ ops = 0
    /\ waiting = <<>>

\* self._dac_parse(resp)
Parse ==
    /\ op.k = "_dac_parse"
    /\ outcome.status = "none"
    /\ outcome' = Outcome(DacParse(op.resp))
    /\ UNCHANGED <<stack, inst, cursor, op, log, logUnit, ops, waiting>>

NextParse == Parse

SpecParse == InitParse /\ [][NextParse]_vars

\* the places of the characters of op.resp that are no whitespace
Inked == {i \in 1..Len(op.resp) : op.resp[i] \notin {" ", "\n", "\t", "\r"}}

LastInked == CHOOSE i \in Inked : \A j \in Inked : j <= i

FirstInked == CHOOSE i \in Inked : \A j \in Inked : i <= j

\* C12: the parser returns the characters between the first character and the
\* final "!" of every response whose last character that is no whitespace is "!"
\* ("A1536!" gives "1536"), and fails with the driver's protocol error for every
\* other response, the empty and the whitespace-only response included.
C12_ParseOrProtocolError ==
    (op.k = "_dac_parse" /\ outcome.status # "none") =>
      IF Inked # {} /\ op.resp[LastInked] = "!"
      THEN /\ outcome.status = "returned"
           /\ outcome.val = SubSeq(op.resp, FirstInked + 1, LastInked - 1)
      ELSE /\ outcome.status = "raised"
           /\ outcome.exc = DacExc

(***************************************************************************)
(* SpecSetAll: set_all on a constructed instrument on which enable_ramp    *)
(* has been set for some of the channels.                                  *)
(***************************************************************************)
\* the sets of channels that ramp
RampingSets == {{5, 6}, {0, 1, 2, 19}}

\* the state in which the last enable_ramp.set(True) of the channels cs returns
InitRamping ==
    /\ stack = <<>>
    /\ \E cs \in RampingSets :
         /\ inst = [Constructed(TRUE, TRUE) EXCEPT
                      !.enable_ramp = [ch \in 0..(NumChans - 1) |-> ch \in cs]]
         /\ op = ParamSetF(ChanObj(CHOOSE c \in cs : \A d \in cs : d <= c), "enable_ramp", TRUE)
    /\ cursor = [slot |-> NumSlots - 1, chan |-> 0]
    /\ outcome = Outcome(Ok(None))
    /\ log = <<>>
    /\ logUnit = <<"op", 0>>
    /\ ops = 0
    /\ waiting = <<>>

NextSetAll == SetAllOp \/ Exchange

SpecSetAll == InitRamping /\ [][NextSetAll]_vars

\* the log has a write of a ramp limit or of the slope
RampWritten == \E j \in 1..Len(log) : Letters(log[j].cmd) \cap {"U", "L", "S"} # {}
                                      /\ "D" \notin Letters(log[j].cmd)

\* the calls of set_all: call i sets channel i - 1 and nothing else, and a call
\* that has written a limit or the slope is left normally only on a slope read of 0
SetAllPhases ==
    (op.k = "set_all" /\ logUnit[1] = "loop") =>
      /\ \A j \in 1..Len(log) : log[j].self = NthChannel(logUnit[2] - 1)
      /\ (UnitLeft /\ inst.enable_ramp[logUnit[2] - 1] /\ RampWritten) =>
            SlopeReadZeroAtEnd(NthChannel(logUnit[2] - 1))
      /\ ~inst.enable_ramp[logUnit[2] - 1] => ~RampWritten
      /\ outcome.status = "returned" => logUnit[2] = 20

\* set_all starts with channel 0 and goes from a channel to the next
SetAllOrder ==
    /\ (stack = <<>> /\ op'.k = "set_all" /\ stack' # <<>>) => Unit(stack') = <<"loop", 1>>
    /\ (op.k = "set_all" /\ stack # <<>> /\ stack' # <<>>) =>
          Unit(stack') \in {Unit(stack), <<"loop", Unit(stack)[2] + 1>>}

\* C13: set_all sets the channels one after another in declaration order; the
\* ramps of the channels with enable_ramp run in sequence: the limit and slope
\* writes of a channel are issued only after the slope register of the ramping
\* channel before it has been read as 0.
C13_SetAllRampsInSequence == []SetAllPhases /\ [][SetAllOrder]_vars

\* set_all has gone on from channel 0, which has ramped to a slope read of 0, to
\* channel 1, which ramps too
C13_Witness ==
    /\ op.k = "set_all"
    /\ stack # <<>>
    /\ logUnit = <<"loop", 1>>
    /\ Unit(stack) = <<"loop", 2>>
    /\ inst.enable_ramp[0] /\ inst.enable_ramp[1]
    /\ RampWritten
    /\ SlopeReadZeroAtEnd(NthChannel(0))

(***************************************************************************)
(* SpecPoll: the blocking ramp and ramp_all with polls without end.  The   *)
(* log keeps the last transactions only, so that a poll can go on for      *)
(* ever; the device answers every transaction, and a slope register that   *)
(* is polled again and again is in the end read as 0.                      *)
(***************************************************************************)
\* the log with the entry e, the oldest slope read dropped from a full log
Slide(e) ==
    IF logUnit # Unit(stack) THEN <<e>>
    ELSE IF Len(log) >= MaxLog THEN Append(SubSeq(log, 5, Len(log)), e)
    ELSE Append(log, e)

\* Exchanged, the log kept to its last transactions
ExchangedSliding(t, resp, m) ==
    /\ stack' = m.stack
    /\ inst' = m.inst
    /\ cursor' = DeviceCursor(cursor, Taken(t.cmd, resp))
    /\ outcome' = IF m.stack = <<>> THEN Outcome(m.result) ELSE outcome
    /\ log' = Slide(Entry(t, cursor, resp))
    /\ logUnit' = Unit(stack)
    /\ UNCHANGED <<op, ops, waiting>>

\* one transaction, whatever the length of the log
ExchangeSliding ==
    /\ stack # <<>>
    /\ \E resp \in Responses(stack) :
         ExchangedSliding(stack[Len(stack)], resp,
                          Finish([stack |-> SubSeq(stack, 1, Len(stack) - 1), inst |-> inst,
                                  result |-> Ok(None)], Ok(resp)))

\* the pending transaction is the query of the word at offset off of a slope
\* register
SlopeWordPending(off) ==
    /\ Len(stack) >= 2
    /\ stack[Len(stack) - 1].k = "_query_address"
    /\ stack[Len(stack) - 1].pc = "word"
    /\ (stack[Len(stack) - 1].addr - 1536) % 16 = off

\* the step in which the device answers that query with 0
SlopeWordZero(off) ==
    /\ SlopeWordPending(off)
    /\ log' # <<>>
    /\ log'[Len(log')].answer = Faithful(stack[Len(stack)].cmd, <<"0">>)

\* channel._ramp(val, rate, block=True), the first operation after construction
BlockingRampOp ==
    /\ Idle
    /\ ops = 0
    /\ \E ch \in TestChans, val \in {RatOf(DefaultMin), RatOf(0)} :
         Start(RampF(ChanObj(ch), val, DefaultRampRate, TRUE))

\* instrument.ramp_all(volt, ramp_rate), the first operation after construction
FirstRampAllOp ==
    /\ Idle
    /\ ops = 0
    /\ \E volt \in {RatOf(DefaultMin), RatOf(6)}, rate \in Rates :
         Start(RampAllF(volt, rate))

NextPoll == BlockingRampOp \/ FirstRampAllOp \/ ExchangeSliding

\* The fairness of the device, written out: ExchangeSliding is enabled exactly
\* when a transaction is pending and every step taken then is one of its steps,
\* so the first conjunct is WF_vars(ExchangeSliding); the answer 0 to the query
\* of a slope word is enabled exactly when that query is pending, so the second
\* is SF_vars of that answer, for each of the two words.
PollFairness ==
    /\ []<>(stack = <<>>) \/ []<><<stack # <<>>>>_vars
    /\ \A off \in {6, 7} :
          <>[](~SlopeWordPending(off)) \/ []<><<SlopeWordZero(off)>>_vars

SpecPoll == Init /\ [][NextPoll]_vars /\ PollFairness

\* the log ends with a read of the two words of the slope register of channel c
\* that has returned a number other than 0
SlopeReadNonzeroAtEnd(c) ==
    /\ Len(log) >= 4
    /\ log[Len(log) - 3].cmd = <<"A">> \o Dec(BaseAddr(c) + 6) \o <<";">>
    /\ log[Len(log) - 3].echoed
    /\ log[Len(log) - 2].cmd = <<"p", ";">>
    /\ DacParse(log[Len(log) - 2].answer).exc = NoExc
    /\ ParseInt(DacParse(log[Len(log) - 2].answer).val).ok
    /\ log[Len(log) - 1].cmd = <<"A">> \o Dec(BaseAddr(c) + 7) \o <<";">>
    /\ log[Len(log) - 1].echoed
    /\ log[Len(log)].cmd = <<"p", ";">>
    /\ DacParse(log[Len(log)].answer).exc = NoExc
    /\ ParseInt(DacParse(log[Len(log)].answer).val).ok
    /\ ~(AnswerMag(Len(log) - 2) = <<>> /\ AnswerMag(Len(log)) = <<>>)

\* the channel whose transactions the log holds
LogChannel == log[Len(log)].self

\* a slope read that is not 0 is followed by the next read of the same register,
\* however many reads there have been; ramp_all stays with the channel
NonzeroPollRepeats ==
    (op.k \in {"_ramp", "ramp_all"} /\ log # <<>> /\ SlopeReadNonzeroAtEnd(LogChannel)) =>
      /\ stack # <<>>
      /\ outcome.status = "running"
      /\ op.k = "ramp_all" => Unit(stack) = logUnit
      /\ stack[Len(stack)].self = LogChannel
      /\ stack[Len(stack)].cmd = <<"A">> \o Dec(BaseAddr(LogChannel) + 6) \o <<";">>

\* C14: a blocking ramp and ramp_all end if the device in the end reports slope 0
\* for every channel that is polled, and do not end while the slope register of
\* a polled channel is read as another number: the poll has no timeout, no limit
\* of reads and no cancellation.
C14_PollEndsOnlyOnZero == []NonzeroPollRepeats /\ ((stack # <<>>) ~> (stack = <<>>))

\* a blocking ramp polls again after so many slope reads other than 0 that the
\* log holds nothing else
C14_Witness ==
    /\ op.k = "_ramp"
    /\ stack # <<>>
    /\ log # <<>>
    /\ \A j \in 1..Len(log) : IsSlopeRead(j) \/ log[j].cmd = <<"p", ";">>
    /\ SlopeReadNonzeroAtEnd(LogChannel)

\* the argument of the slope write cmd is greater than 0
SlopeArgPositive(cmd) == cmd[2] \notin {"-", "0"}

\* the limit writes a ramp to the value val can make
LimitWrites(val) ==
    {Cmd("U", Dec(DacVToCode(val, inst.min_val, inst.max_val).val)),
     Cmd("L", Dec(DacVToCode(val, inst.min_val, inst.max_val).val))}

\* C15: a ramp whose target differs from the current voltage writes exactly one
\* limit register and then the slope register: the upper limit, set to the
\* target, if the slope is greater than 0, otherwise the lower limit, set to the
\* target; the other limit is not written.
C15_OneLimitThenSlope ==
    op.k \in {"_ramp", "ramp"} =>
      /\ \A j \in 1..Len(log) :
            Letters(log[j].cmd) \cap {"U", "L"} # {} =>
              j = 6 /\ log[j].cmd \in LimitWrites(op.val)
      /\ \A j \in 1..Len(log) :
            "S" \in Letters(log[j].cmd) =>
              /\ j = 8
              /\ log[6].cmd \in LimitWrites(op.val)
              /\ log[6].cmd[1] = "U" <=> SlopeArgPositive(log[8].cmd)
      /\ (outcome.status = "returned" /\ Len(log) >= 2 /\ LogVolt # op.val) =>
            Len(log) >= 8 /\ "S" \in Letters(log[8].cmd)

\* a ramp down has written the lower limit and then a slope below 0
C15_Witness ==
    /\ op.k = "_ramp"
    /\ Len(log) >= 8
    /\ log[6].cmd[1] = "L"
    /\ log[8].cmd[1] = "S"
    /\ log[8].cmd[2] = "-"

\* the operation runs a ramp: _ramp, the ramp function, or volt.set on a channel
\* with enable_ramp
RampRuns ==
    \/ op.k \in {"_ramp", "ramp"}
    \/ op.k = "param_set" /\ op.name = "volt" /\ inst.enable_ramp[ChanIndex(op.self)]
          /\ InNumbers(op.value, inst.min_val, inst.max_val)

\* the target of that ramp: volt.set ramps to the voltage of the code of its value
RampTarget ==
    IF op.k = "param_set"
    THEN DacCodeToV(DacVToCode(op.value, inst.min_val, inst.max_val).val,
                    inst.min_val, inst.max_val)
    ELSE op.val

\* the voltage read at the start of the ramp has returned a number
VoltReadDone ==
    /\ Len(log) >= 2
    /\ log[1].cmd = Cmd("A", Dec(BaseAddr(op.self) + 9))
    /\ log[1].echoed
    /\ log[2].cmd = <<"p", ";">>
    /\ DacParse(log[2].answer).exc = NoExc
    /\ ParseInt(DacParse(log[2].answer).val).ok

\* C16: a ramp whose target equals the voltage read from the device at the start
\* of the ramp does nothing: after that read it issues no read of the update
\* period, no limit write, no slope write and no slope poll, and returns.
C16_RampToCurrentVoltageIsNoOp ==
    (RampRuns /\ VoltReadDone /\ LogVolt = RampTarget) =>
      /\ Len(log) = 2
      /\ stack = <<>>
      /\ outcome.status = "returned"

\* a ramp to -5 V has read the code 0, the code of -5 V, and returned
C16_Witness ==
    /\ op.k = "_ramp"
    /\ op.val = RatOf(DefaultMin)
    /\ VoltReadDone
    /\ AnswerMag(2) = <<>>
    /\ LogVolt = op.val
    /\ Len(log) = 2
    /\ outcome.status = "returned"

(***************************************************************************)
(* SpecSlope: the slope a ramp computes (_ramp, lines 354-359) from the     *)
(* code it has read, its target, the update period it has read and its     *)
(* rate.                                                                    *)
(***************************************************************************)
\* the codes read as the current voltage: those whose voltages are short fractions
SlopeCodes == {0, 13107, 21845, 39321, 65535}

\* the targets, in volts
SlopeTargets == {RatOf(0 - 5), RatOf(0), Rat(1, 1000), Rat(7, 3), Rat(4999, 1000)}

\* the update periods read, in microseconds
SlopePeriods == {50, 100, 65535}

\* the rates, in volts per second
SlopeRates == {Rat(1, 10), RatOf(10), Rat(1, 30000), Rat(1, 100000), Rat(0 - 1, 10)}

InitSlope ==
    /\ stack = <<>>
    /\ inst \in {CodecInst(rg) : rg \in {<<0 - 5, 5>>, <<0 - 10, 10>>}}
    /\ cursor = [slot |-> 0, chan |-> 0]
    /\ op \in {[k |-> "slope", c_val |-> c, val |-> v, period |-> p, rate |-> r] :
                 c \in SlopeCodes, v \in SlopeTargets, p \in SlopePeriods, r \in SlopeRates}
    /\ DacCodeToV(op.c_val, inst.min_val, inst.max_val) # op.val
    /\ outcome = NoOutcome
    /\ log = <<>>
    /\ logUnit = <<"op", 0>>
    /\ ops = 0
    /\ waiting = <<>>

\* c_val, e_val, t_rate, secs and slope of _ramp
SlopeOf ==
    /\ op.k = "slope"
    /\ outcome.status = "none"
    /\ outcome' = Outcome(Ok(RampSlope(DacCodeToV(op.c_val, inst.min_val, inst.max_val),
                                       op.val, op.c_val,
                                       DacVToCode(op.val, inst.min_val, inst.max_val).val,
                                       op.period, op.rate)))
    /\ UNCHANGED <<stack, inst, cursor, op, log, logUnit, ops, waiting>>

NextSlope == SlopeOf

SpecSlope == InitSlope /\ [][NextSlope]_vars

\* e_val - c_val
SlopeSteps == DacVToCode(op.val, inst.min_val, inst.max_val).val - op.c_val

\* |c_volt - val|
SlopeDistance == RatAbs(RatSub(DacCodeToV(op.c_val, inst.min_val, inst.max_val), op.val))

\* with x = (e_val - c_val) / (t_rate * secs) * 65536 = SlopeSteps * 65536 * period * rate
\* / (10^6 * |c_volt - val|): k * |x| = SlopeOver(k) / SlopeUnder(1)
SlopeOver(k) ==
    MagProduct(<<k, Abs(SlopeSteps), 256, 256, op.period, SlopeDistance.d, Abs(op.rate.n)>>)

SlopeUnder(k) == MagProduct(<<k, 1000, 1000, SlopeDistance.n, op.rate.d>>)

MagLessEq(a, b) == ~MagLess(b, a)

\* s has the sign of x, or is 0
SlopeSign(s) == (s > 0 => SlopeSteps > 0) /\ (s < 0 => SlopeSteps < 0)

\* s is x with its fraction cut off: |s| <= |x| < |s| + 1
SlopeTruncated(s) ==
    /\ SlopeSign(s)
    /\ MagLessEq(SlopeUnder(Abs(s)), SlopeOver(1))
    /\ MagLess(SlopeOver(1), SlopeUnder(Abs(s) + 1))

\* s is x rounded to a nearest integer: |s| - 1/2 <= |x| <= |s| + 1/2
SlopeRounded(s) ==
    /\ SlopeSign(s)
    /\ s # 0 => MagLessEq(SlopeUnder(2 * Abs(s) - 1), SlopeOver(2))
    /\ MagLessEq(SlopeOver(2), SlopeUnder(2 * Abs(s) + 1))

\* C17 as stated: the slope of a ramp is round((target_code - current_code) /
\* (update_rate_hz * duration_sec) * 65536), with update_rate_hz =
\* 1 / (update_period_us * 1e-6) and duration_sec = |current_volt - target_volt| / rate.
C17_SlopeIsRounded ==
    (op.k = "slope" /\ outcome.status = "returned") => SlopeRounded(outcome.val)

\* C17, amended: the slope of a ramp is that quotient with its fraction cut off,
\* toward zero (int(...)), for every current code, target, update period and rate.
C17_SlopeIsTruncated ==
    (op.k = "slope" /\ outcome.status = "returned") => SlopeTruncated(outcome.val)

\* the ramp from code 0 to 0 V at 0.1 V/s and a period of 100 us, whose quotient
\* 4294.967... gives the slope 4294
C17_Witness ==
    /\ op.k = "slope"
    /\ op.c_val = 0 /\ op.val = RatOf(0) /\ op.period = 100 /\ op.rate = Rat(1, 10)
    /\ inst.max_val = RatOf(5)
    /\ outcome.status = "returned"
    /\ outcome.val = 4294
    /\ MagLess(SlopeUnder(2 * 4294 + 1), SlopeOver(2))

\* transaction j of the log has failed in one of the ways of C18: the echo of a
\* slot select, channel select or address set does not match, or the response
\* has no terminator
Failed(j) ==
    \/ log[j].cmd[1] \in {"B", "A"} /\ ~log[j].echoed
    \/ ~log[j].ended

\* the driver reads the response of transaction j: that of a select, of an address
\* set and of a query
ResponseRead(j) == log[j].cmd[1] \in {"B", "A"} \/ IsQuery(log[j].cmd)

\* the same for the responses the driver reads: a failure there is the end of the
\* operation
ReadFailureRaisesAtOnce ==
    op.k \notin {"__init__", "get_idn"} =>
      \A j \in 1..Len(log) :
        (Failed(j) /\ ResponseRead(j)) => /\ j = Len(log)
                                          /\ stack = <<>>
                                          /\ outcome.status = "raised"

\* C18: no operation outside feature detection retries: once the echo of a slot select,
\* channel select or address set does not match, or a response lacks the
\* terminator "!", the operation raises at once and sends no further transaction;
\* the remaining steps of the enclosing operation are not executed.
C18_FailureRaisesAtOnce ==
    op.k \notin {"__init__", "get_idn"} =>
      \A j \in 1..Len(log) :
        Failed(j) => /\ j = Len(log)
                     /\ stack = <<>>
                     /\ outcome.status = "raised"

\* transaction j of the log is the calibration probe "k;" with a response that
\* feature detection has taken: one with its terminator, or the protocol error
\* that feature detection catches
CalProbeTaken(j) ==
    /\ op.k \in {"__init__", "get_idn"}
    /\ log[j].cmd = <<"k", ";">>
    /\ DacParse(log[j].answer).exc \in {NoExc, DacExc}

\* the response j is well formed and has a payload
CalProbePayload(j) ==
    DacParse(log[j].answer).exc = NoExc /\ DacParse(log[j].answer).val # <<>>

\* C19: after every run of feature detection calibration_supported has a value:
\* true if the "k;" probe returned a well-formed response with a payload, false
\* in every other case, a well-formed response without payload included;
\* FineCald is a slot mode of the slots exactly when the flag is true.
C19_CalSupportedDefined ==
    /\ \A j \in 1..Len(log) :
          CalProbeTaken(j) =>
            /\ "_cal_supported" \in inst.attrs
            /\ inst.cal_supported = CalProbePayload(j)
    /\ (op.k = "__init__" /\ inst.constructed) =>
          \A sl \in 0..(NumSlots - 1) : inst.finecald[sl] = inst.cal_supported

\* cmd is a command of the versa EEPROM: the read "e;" or the write "E{val};"
VersaCmd(cmd) == cmd = <<"e", ";">> \/ cmd[1] = "E"

\* the flag is never true and no slot has channels with initial_value
VersaFlagFalse ==
    /\ ~inst.VERSA_EEPROM_available
    /\ \A sl \in 0..(NumSlots - 1) : ~inst.has_initial_value[sl]

\* the only command of the versa EEPROM is the read of the probe of a feature
\* detection, at construction or in get_idn
VersaOnlyInProbe ==
    /\ VersaFlagFalse
    /\ \A j \in 1..Len(log) :
          VersaCmd(log[j].cmd) =>
            /\ op.k \in {"__init__", "get_idn"}
            /\ log[j].cmd = <<"e", ";">>
            /\ log[j].self = InstAsSlot0

\* C20: versa_eeprom_available is false in every reachable state, whether the
\* probe at address 6 under slot 0 succeeds or fails; no channel has
\* initial_value, and after the feature detection of construction no command of
\* the versa EEPROM ("e;" or "E{val};") is ever sent.
C20_VersaNeverUsed ==
    /\ VersaFlagFalse
    /\ inst.constructed =>
          /\ \A j \in 1..Len(log) : ~VersaCmd(log[j].cmd)
          /\ stack # <<>> => ~VersaCmd(stack[Len(stack)].cmd)

\* the offset of a channel register from the channel's base address
LayoutOffset(name) ==
    CASE name = "update_period" -> 0
      [] name = "upper_ramp_limit" -> 4
      [] name = "lower_ramp_limit" -> 5
      [] name = "slope" -> 6
      [] name = "volt" -> 9

\* the transactions of a read of n words at the offset of the parameter read
LayoutPlan(n) ==
    [j \in 1..(2 * n) |->
       IF j % 2 = 1
       THEN <<"A">> \o Dec(1536 + 64 * op.self.slot + 16 * op.self.chan
                             + LayoutOffset(op.name) + (j \div 2)) \o <<";">>
       ELSE <<"p", ";">>]

\* the read of a channel register follows the plan of n words
ReadFollows(n) ==
    /\ IsPrefix(LogCmds, LayoutPlan(n))
    /\ outcome.status = "returned" => LogCmds = LayoutPlan(n)

RateInputs ==
    {Rat(0 - 1, 10), RatOf(0), Rat(1, 100000), DefaultRampRate, RatOf(10), RatOf(11)}

\* channel.ramp_rate.set(rate)
RateSetOp ==
    /\ Idle
    /\ \E ch \in TestChans, rate \in RateInputs :
         Start(ParamSetF(ChanObj(ch), "ramp_rate", rate))

\* channel.ramp(val, rate)
RampAtRateOp ==
    /\ Idle
    /\ \E ch \in TestChans, rate \in RateInputs :
         Start(RampFunctionF(ChanObj(ch), RatOf(0), rate))

NextRate == RateSetOp \/ RampAtRateOp \/ VoltSetOp \/ Exchange

SpecRate == InitRamping /\ [][NextRate]_vars

\* the operation was refused by the validator of its argument, before any
\* transaction
Refused == outcome.status = "raised" /\ outcome.exc = "ValueError" /\ log = <<>>

\* C22: the ramp_rate of a channel is greater than 0 in every reachable state,
\* every rate the ramp function accepts is greater than 0, and the duration
\* |current_volt - target_volt| / rate of a ramp never divides by zero.
C22_RatePositive ==
    /\ \A ch \in 0..(NumChans - 1) : inst.ramp_rate[ch].n > 0
    /\ (op.k = "ramp" /\ ~Refused) => op.rate.n > 0
    /\ outcome.exc # "ZeroDivisionError"

(***************************************************************************)
(* SpecShared: one caller, or two callers on the same transport.  Each     *)
(* transaction is one ask_raw; the callers take turns between them.        *)
(***************************************************************************)
\* a caller that has not called anything yet
NewCaller ==
    [stack |-> <<>>, op |-> NoOp, outcome |-> NoOutcome, log |-> <<>>, logUnit |-> <<"op", 0>>]

\* the caller that is running
Caller ==
    [stack |-> stack, op |-> op, outcome |-> outcome, log |-> log, logUnit |-> logUnit]

\* the channels the callers set: two channels of one slot, and one of another slot
SharedChans == {5, 6, 10}

InitShared ==
    /\ stack = <<>>
    /\ inst = Constructed(TRUE, TRUE)
    /\ cursor = [slot |-> NumSlots - 1, chan |-> 0]
    /\ op = InitF
    /\ outcome = Outcome(Ok(None))
    /\ log = InitLastLog
    /\ logUnit = <<"slots", NumSlots>>
    /\ ops = 0
    /\ waiting \in {<<>>, <<NewCaller>>}

\* channel.volt.set(volt), by the caller that is running
SharedVoltSetOp ==
    /\ Idle
    /\ \E ch \in SharedChans, volt \in {RatOf(DefaultMin), RatOf(0)} :
         Start(ParamSetF(ChanObj(ch), "volt", volt))

\* the other caller runs on: the callers take turns between two transactions
Switch ==
    /\ waiting # <<>>
    /\ stack' = waiting[1].stack
    /\ op' = waiting[1].op
    /\ outcome' = waiting[1].outcome
    /\ log' = waiting[1].log
    /\ logUnit' = waiting[1].logUnit
    /\ waiting' = <<Caller>>
    /\ UNCHANGED <<inst, cursor, ops>>

NextShared == SharedVoltSetOp \/ Switch \/ Exchange

SpecShared == InitShared /\ [][NextShared]_vars

\* transaction j of the log is a select sent as a transaction of its own
IsSelect(lg, j) ==
    lg[j].cmd = <<"B">> \o Dec(lg[j].self.slot) \o <<";">>
                  \o <<"C">> \o Dec(lg[j].self.chan) \o <<";">>

\* transaction j of the log is a channel-scoped command that the device has
\* applied to another channel than its issuer's
Misapplied(j) ==
    /\ Letters(log[j].cmd) \cap ChannelScoped # {}
    /\ log[j].cur # [slot |-> log[j].self.slot, chan |-> log[j].self.chan]

\* C23: the select and the command it protects are two transactions.  With one
\* caller every channel-scoped command is received with the cursor on its issuer.
\* With two callers a channel-scoped command still follows its caller's own
\* echoed select, as a transaction of its own, and only then can it be applied to
\* another channel than its issuer's.
C23_SelectAndCommandAreTwoTransactions ==
    /\ waiting = <<>> => /\ \A j \in 1..Len(log) : ScopedAfterSelect(j)
                         /\ PendingOnIssuer
    /\ \A j \in 1..Len(log) :
          Letters(log[j].cmd) \cap ChannelScoped # {} =>
             /\ j > 1
             /\ IsSelect(log, j - 1)
             /\ log[j - 1].self = log[j].self
             /\ log[j - 1].echoed
             /\ Misapplied(j) => waiting # <<>>

\* two callers: the command of one caller, sent after its echoed select, has been
\* applied to the channel that the other caller has selected
C23_Witness ==
    /\ waiting # <<>>
    /\ \E j \in 2..Len(log) :
          /\ Misapplied(j)
          /\ IsSelect(log, j - 1)
          /\ log[j - 1].echoed
          /\ \E i \in 1..Len(waiting[1].log) :
                /\ IsSelect(waiting[1].log, i)
                /\ waiting[1].log[i].echoed
                /\ log[j].cur = [slot |-> waiting[1].log[i].self.slot,
                                 chan |-> waiting[1].log[i].self.chan]

\* the address of the command "A{address};"
AddressSent(cmd) == WToInt(ParseInt(SubSeq(cmd, 2, Len(cmd) - 1)).val)

\* C24: every address sent in an "A{address};" command lies in [0, 1107296266],
\* in every read of any number of words, also one that starts at or just below
\* the upper bound, and in every write.
C24_AddressesSentInRange ==
    /\ \A j \in 1..Len(log) : log[j].cmd[1] = "A" => AddrValid(AddressSent(log[j].cmd))
    /\ (stack # <<>> /\ stack[Len(stack)].cmd[1] = "A")
          => AddrValid(AddressSent(stack[Len(stack)].cmd))

\* the code read from the voltage register at the start of the ramp, and the code
\* of the ramp's target
CurrentCode == WToInt([neg |-> FALSE, mag |-> AnswerMag(2)])

TargetCode == DacVToCode(RampTarget, inst.min_val, inst.max_val).val

\* C25: whenever a ramp arms with a target code that differs from the current
\* code, the slope it writes is not 0 and has the sign of target code - current
\* code, for every update period and every accepted rate; so a blocking ramp
\* never writes slope 0 and returns with the output away from the target.
C25_ArmedSlopeNonzero ==
    RampRuns =>
      \A j \in 1..Len(log) :
        ("S" \in Letters(log[j].cmd) /\ TargetCode # CurrentCode) =>
           /\ log[j].cmd[2] # "0"
           /\ log[j].cmd[2] = "-" <=> TargetCode < CurrentCode

(***************************************************************************)
(* SpecFloat: the voltage codec in the arithmetic of the program.  Python  *)
(* floats are binary64: every operation returns the exact result rounded   *)
(* to 53 significant bits, ties to even.  A natural number is the sequence *)
(* of its digits in base 2^14, lowest first; a float is [s, m, e] with the *)
(* value (-1)^s * m * 2^e, m odd or zero.  The values of the codec stay    *)
(* far from the subnormal numbers and from overflow.                       *)
(***************************************************************************)
BigBase == 2^14

RECURSIVE BigOf(_)
BigOf(n) == IF n = 0 THEN <<>> ELSE <<n % BigBase>> \o BigOf(n \div BigBase)

RECURSIVE BigNorm(_)
BigNorm(a) == IF a # <<>> /\ a[Len(a)] = 0 THEN BigNorm(SubSeq(a, 1, Len(a) - 1)) ELSE a

RECURSIVE BigToInt(_)
BigToInt(a) == IF a = <<>> THEN 0 ELSE a[1] + BigBase * BigToInt(Tail(a))

DigitAt(a, i) == IF i <= Len(a) THEN a[i] ELSE 0

\* a + b + carry, from digit i on
RECURSIVE BigAddFrom(_, _, _, _)
BigAddFrom(a, b, i, carry) ==
    IF i > Len(a) /\ i > Len(b) THEN (IF carry = 0 THEN <<>> ELSE <<carry>>)
    ELSE <<(DigitAt(a, i) + DigitAt(b, i) + carry) % BigBase>>
         \o BigAddFrom(a, b, i + 1, (DigitAt(a, i) + DigitAt(b, i) + carry) \div BigBase)

BigAdd(a, b) == BigAddFrom(a, b, 1, 0)

\* a - b - borrow for a >= b, from digit i on
RECURSIVE BigSubFrom(_, _, _, _)
BigSubFrom(a, b, i, borrow) ==
    IF i > Len(a) THEN <<>>
    ELSE <<(BigBase + DigitAt(a, i) - DigitAt(b, i) - borrow) % BigBase>>
         \o BigSubFrom(a, b, i + 1, IF DigitAt(a, i) - DigitAt(b, i) - borrow < 0 THEN 1 ELSE 0)

BigSub(a, b) == BigNorm(BigSubFrom(a, b, 1, 0))

BigLess(a, b) ==
    IF Len(a) # Len(b) THEN Len(a) < Len(b)
    ELSE \E i \in 1..Len(a) : a[i] < b[i] /\ \A j \in (i + 1)..Len(a) : a[j] = b[j]

\* a * k + carry for 0 <= k < 2^14, from digit i on
RECURSIVE BigTimesFrom(_, _, _, _)
BigTimesFrom(a, k, i, carry) ==
    IF i > Len(a) THEN (IF carry = 0 THEN <<>> ELSE <<carry>>)
    ELSE <<(a[i] * k + carry) % BigBase>>
         \o BigTimesFrom(a, k, i + 1, (a[i] * k + carry) \div BigBase)

BigTimes(a, k) == IF k = 0 THEN <<>> ELSE BigTimesFrom(a, k, 1, 0)

RECURSIVE BigMul(_, _)
BigMul(a, b) ==
    IF a = <<>> \/ b = <<>> THEN <<>>
    ELSE BigAdd(BigTimes(a, b[1]), BigNorm(<<0>> \o BigMul(a, Tail(b))))

\* a \div k for 0 < k <= 2^14, from digit i down, rem the remainder of the digits above
RECURSIVE BigOverFrom(_, _, _, _)
BigOverFrom(a, k, i, rem) ==
    IF i = 0 THEN <<>>
    ELSE BigOverFrom(a, k, i - 1, (rem * BigBase + a[i]) % k)
         \o <<(rem * BigBase + a[i]) \div k>>

BigOver(a, k) == BigNorm(BigOverFrom(a, k, Len(a), 0))

\* a * 2^k
BigShl(a, k) ==
    IF a = <<>> THEN <<>> ELSE [i \in 1..(k \div 14) |-> 0] \o BigTimes(a, 2^(k % 14))

\* a \div 2^k
BigShr(a, k) == BigOver(SubSeq(a, (k \div 14) + 1, Len(a)), 2^(k % 14))

\* the largest digit q in lo..hi with q * b <= r
RECURSIVE QuotDigit(_, _, _, _)
QuotDigit(r, b, lo, hi) ==
    IF lo = hi THEN lo
    ELSE IF BigLess(r, BigTimes(b, (lo + hi + 1) \div 2))
    THEN QuotDigit(r, b, lo, ((lo + hi + 1) \div 2) - 1)
    ELSE QuotDigit(r, b, (lo + hi + 1) \div 2, hi)

\* the quotient and remainder d of the digits above taken one digit further: the
\* remainder so far is r, its quotient digit q
BigDivDigit(d, r, b, q) == [q |-> <<q>> \o d.q, r |-> BigSub(r, BigTimes(b, q))]

BigDivStep(d, x, b) ==
    BigDivDigit(d, BigNorm(<<x>> \o d.r), b, QuotDigit(BigNorm(<<x>> \o d.r), b, 0, BigBase - 1))

\* quotient and remainder by b of the digits i and above of a: long division
RECURSIVE BigDivFrom(_, _, _)
BigDivFrom(a, b, i) ==
    IF i > Len(a) THEN [q |-> <<>>, r |-> <<>>]
    ELSE BigDivStep(BigDivFrom(a, b, i + 1), a[i], b)

\* quotient and remainder of a by b > 0
BigDiv(a, b) == [q |-> BigNorm(BigDivFrom(a, b, 1).q), r |-> BigDivFrom(a, b, 1).r]

\* the number of bits of a digit x > 0, and of a > 0
DigitBits(x) == CHOOSE n \in 1..14 : 2^(n - 1) <= x /\ x < 2^n

BitLen(a) == IF a = <<>> THEN 0 ELSE 14 * (Len(a) - 1) + DigitBits(a[Len(a)])

\* the number of zero bits below the lowest bit set of a digit x > 0, and of m > 0
DigitLowZeros(x) == CHOOSE n \in 0..13 : x % 2^n = 0 /\ (x \div 2^n) % 2 = 1

LowDigit(m) == CHOOSE i \in 1..Len(m) : m[i] # 0 /\ \A j \in 1..(i - 1) : m[j] = 0

LowZeros(m) == 14 * (LowDigit(m) - 1) + DigitLowZeros(m[LowDigit(m)])

\* the significant bits of a float
Precision == 53

\* the float of (-1)^s * m * 2^e for m of at most 53 bits
FCanon(s, m, e) ==
    IF m = <<>> THEN [s |-> FALSE, m |-> <<>>, e |-> 0]
    ELSE [s |-> s, m |-> BigShr(m, LowZeros(m)), e |-> e + LowZeros(m)]

\* what the k lowest bits of m hold, k >= 1
LowBits(m, k) == BigSub(m, BigShl(BigShr(m, k), k))

Half(k) == BigShl(<<1>>, k - 1)

IsOdd(q) == q # <<>> /\ q[1] % 2 = 1

\* m with its k lowest bits rounded away, to nearest, ties to even; sticky: the
\* exact value has further bits set below m
RoundedOff(m, k, sticky) ==
    IF \/ BigLess(Half(k), LowBits(m, k))
       \/ LowBits(m, k) = Half(k) /\ (sticky \/ IsOdd(BigShr(m, k)))
    THEN BigAdd(BigShr(m, k), <<1>>)
    ELSE BigShr(m, k)

\* (-1)^s * m * 2^e, and a little more if sticky, rounded to a float
FRound(s, m, e, sticky) ==
    IF BitLen(m) <= Precision THEN FCanon(s, m, e)
    ELSE FCanon(s, RoundedOff(m, BitLen(m) - Precision, sticky), e + BitLen(m) - Precision)

FZero == [s |-> FALSE, m |-> <<>>, e |-> 0]

FNeg(a) == IF a.m = <<>> THEN a ELSE [a EXCEPT !.s = ~a.s]

Min(x, y) == IF x <= y THEN x ELSE y

\* m * 2^e of the float a as a multiple of 2^to, to <= e
Aligned(a, to) == BigShl(a.m, a.e - to)

\* the exact sum of two floats that are not zero, as [s, m, e], not rounded
ExactSum(a, b) ==
    IF a.s = b.s
    THEN [s |-> a.s, e |-> Min(a.e, b.e),
          m |-> BigAdd(Aligned(a, Min(a.e, b.e)), Aligned(b, Min(a.e, b.e)))]
    ELSE IF BigLess(Aligned(a, Min(a.e, b.e)), Aligned(b, Min(a.e, b.e)))
    THEN [s |-> b.s, e |-> Min(a.e, b.e),
          m |-> BigSub(Aligned(b, Min(a.e, b.e)), Aligned(a, Min(a.e, b.e)))]
    ELSE [s |-> a.s, e |-> Min(a.e, b.e),
          m |-> BigSub(Aligned(a, Min(a.e, b.e)), Aligned(b, Min(a.e, b.e)))]

Rounded(x) == FRound(x.s, x.m, x.e, FALSE)

\* a + b
FAdd(a, b) ==
    IF a.m = <<>> THEN b ELSE IF b.m = <<>> THEN a ELSE Rounded(ExactSum(a, b))

\* a - b
FSub(a, b) == FAdd(a, FNeg(b))

\* a < b
FLess(a, b) ==
    IF a.m = <<>> THEN b.m # <<>> /\ ~b.s
    ELSE IF b.m = <<>> THEN a.s
    ELSE ExactSum(a, FNeg(b)).m # <<>> /\ ExactSum(a, FNeg(b)).s

\* a * b
FMul(a, b) == FRound(a.s # b.s, BigMul(a.m, b.m), a.e + b.e, FALSE)

\* the quotient of a.m * 2^k by b.m, of 56 bits or more, rounded
FQuot(a, b, k) ==
    FRound(a.s # b.s, BigDiv(BigShl(a.m, k), b.m).q, a.e - b.e - k,
           BigDiv(BigShl(a.m, k), b.m).r # <<>>)

\* a / b, b not zero
FDiv(a, b) ==
    IF a.m = <<>> THEN FZero ELSE FQuot(a, b, Precision + 3 + BitLen(b.m) - BitLen(a.m))

\* float(n) of an int below 2^31
FOfInt(n) == FCanon(n < 0, BigOf(Abs(n)), 0)

\* the float of a decimal literal, or of an int
FOfRat(r) == FDiv(FOfInt(r.n), FOfInt(r.d))

\* round(a) of a float within the ints of the model: to nearest, ties to even
FRoundToInt(a) ==
    (IF a.s THEN 0 - 1 ELSE 1)
    * BigToInt(IF a.e >= 0 THEN BigShl(a.m, a.e) ELSE RoundedOff(a.m, 0 - a.e, FALSE))

\* DacReader._dac_code_to_v in floats
DacCodeToVFloat(code, min_val, max_val) ==
    FAdd(FMul(FDiv(FOfInt(code), FOfInt(CodeMax)), FSub(max_val, min_val)), min_val)

\* DacReader._dac_v_to_code in floats
DacVToCodeFloat(volt, min_val, max_val) ==
    IF FLess(volt, min_val) \/ FLess(max_val, volt) THEN Err("ValueError")
    ELSE CodeChecked(FRoundToInt(FMul(FDiv(FSub(volt, min_val), FSub(max_val, min_val)),
                                      FOfInt(CodeMax))))

\* the ranges min_val, max_val as the caller writes them: ints and decimal literals
FloatRanges ==
    {<<RatOf(0 - 5), RatOf(5)>>, <<RatOf(0 - 10), RatOf(10)>>, <<RatOf(0), RatOf(1)>>,
     <<Rat(0 - 1, 10), Rat(3, 10)>>, <<Rat(1, 10), Rat(7, 10)>>}

\* the words read from the voltage register: codes, and words above the last code
FloatWords == {0, 1, 2, 13107, 21845, 32767, 32768, 39321, 65534, 65535, 65536, 131070}

InitFloat ==
    /\ stack = <<>>
    /\ inst \in {[NewInst EXCEPT !.min_val = rg[1], !.max_val = rg[2]] : rg \in FloatRanges}
    /\ cursor = [slot |-> 0, chan |-> 0]
    /\ op \in {[k |-> "c_volt", code |-> c] : c \in FloatWords}
    /\ outcome = NoOutcome
    /\ log = <<>>
    /\ logUnit = <<"op", 0>>
    /\ ops = 0
    /\ waiting = <<>>

\* c_volt = self.volt.get(): the get_parser of volt on the word read
VoltOfWord ==
    /\ op.k = "c_volt"
    /\ outcome.status = "none"
    /\ outcome' = Outcome(Ok(DacCodeToVFloat(op.code, FOfRat(inst.min_val),
                                             FOfRat(inst.max_val))))
    /\ UNCHANGED <<stack, inst, cursor, op, log, logUnit, ops, waiting>>

\* c_val = self._dac_v_to_code(c_volt)
CodeOfVolt ==
    /\ op.k = "c_volt"
    /\ outcome.status = "returned"
    /\ op' = [k |-> "c_val", code |-> op.code]
    /\ outcome' = Outcome(DacVToCodeFloat(outcome.val, FOfRat(inst.min_val),
                                          FOfRat(inst.max_val)))
    /\ UNCHANGED <<stack, inst, cursor, log, logUnit, ops, waiting>>

NextFloat == VoltOfWord \/ CodeOfVolt

SpecFloat == InitFloat /\ [][NextFloat]_vars

\* C26: for every code c in 0..65535 and every range min_val < max_val the code of
\* the voltage of c is c, so that the current code of a ramp is the code in the
\* voltage register; for a register word above 65535 the conversion fails with
\* the range error.
C26_CodeOfVoltOfCode ==
    op.k = "c_val" =>
       IF op.code <= CodeMax
       THEN outcome.status = "returned" /\ outcome.val = op.code
       ELSE outcome.status = "raised" /\ outcome.exc = "ValueError"

====
